---- MODULE Spec2Model ----
(***************************************************************************)
(* Verification model of the alpaca entity retrieval service.              *)
(*                                                                         *)
(* Text is modelled as a sequence of one-character strings, so that the    *)
(* normalisers (strip, casefold, tokenize, normalize_exact_text) are       *)
(* computed the way the Python code computes them.  Real-valued scores     *)
(* are exact rationals: every score of one rerank call is an integer       *)
(* numerator over a denominator shared by the whole call.                  *)
(***************************************************************************)
EXTENDS Integers, Sequences, FiniteSets, TLC

VARIABLES
    rset,      \* rerank harness: the candidate set, a function qid -> candidate
    rq,        \* rerank harness: the query (mention_norm, hints, exact_mode, limit)
    rin,       \* rerank harness: the candidate list handed to the last call
    rout,      \* rerank harness: the list returned by the last call
    rfirst,    \* rerank harness: the list returned by the first call
    rcalls,    \* rerank harness: 0 = no call yet, 1 = one call, 2 = several
    kq,        \* cache-key harness: the two normalised queries
    kkeys,     \* cache-key harness: their cache keys, <<>> before they are built
    index,     \* lookup: the documents of the Elasticsearch index
    client,    \* lookup: the client the client posts to and the hints it sends
    cache,     \* lookup: the query_cache table, a function cache_key -> result
    last,      \* lookup: the most recent call of lookup and what it did
    dump,              \* pass 1: the entities of the dump, in file order
    batch_size,        \* pass 1: --batch-size
    pass1_limit,       \* pass 1: --limit (0 = the whole dump)
    emitted,           \* pass 1: how many entities the dump iterator has yielded
    pending_entities,  \* pass 1: the batch being filled
    entities,          \* store: the rows of the entities table
    pass1_done,        \* pass 1: run_pass1 has returned
    languages,   \* pass 1: --languages
    workers,              \* ingestion: --workers
    pass1_build_search_vector,  \* pass 1: the build_search_vector run_pass1 was given
    context_inputs,       \* store: the rows of the entity_context_inputs table
    last_write,           \* store: the latest batch write and how it ended
    pass1_failed,         \* pass 1: run_pass1 has ended with an exception
    mode,                 \* driver: --mode
    pc,                   \* driver: where main of build_postgres_entities.py is
    exit_code,            \* driver: what main returned, <<>> while it runs
    trace,                \* driver: the phases this run has entered and left
    runs,                 \* driver: how many times main has been started
    dump_exists,          \* driver: the dump file is there
    sample_entity_cache,  \* store: the rows of the sample_entity_cache table
    context_batch_size,   \* pass 2: --context-batch-size
    pass2_pc,             \* pass 2: where run_pass2 is
    pass2_batches,        \* pass 2: the batches iter_entity_ids yields
    submitted,            \* pass 2: how many batches have been submitted
    in_flight,            \* pass 2: the futures submitted and not yet drained
    futures,              \* pass 2: the tasks handed to the thread pool
    updated_total,        \* pass 2: the sum of the results drained
    pass2_contexts,       \* pass 2: the context strings its latest complete run left
    pass2_contexts_before,  \* pass 2: those of the complete run before, same store
    skip_phases,          \* pipeline: the phases --skip-labels, --skip-bow, --skip-quickwit skip
    languages_arg,        \* pipeline: --languages as given
    pipeline_pc,          \* pipeline: the phase main of run_pipeline.py is at
    phases_run,           \* pipeline: the phases executed and how each ended
    pipeline_exit,        \* pipeline: what main returned, <<>> if it has not
    pipeline_uncaught,    \* pipeline: the exception that left main, <<>> if none
    wd_entity,            \* classifier: the Wikidata entity under classification
    wd_limit,             \* classifier: the limit given to extract_claim_object_ids
    wd_object_ids,        \* classifier: what extract_claim_object_ids returned, <<>> before the call
    wd_category,          \* classifier: what infer_item_category returned, <<>> before the call
    ner_entity_id,        \* typer: the entity_id given to infer_ner_types
    ner_labels,           \* typer: labels, language to text
    ner_aliases,          \* typer: aliases, language to texts
    ner_descriptions,     \* typer: descriptions, language to text
    ner_types,            \* typer: what infer_ner_types returned, <<>> before the call
    qw_pc,                \* quickwit client: where ensure_index is
    qw_index_id,          \* quickwit client: the index_id given to ensure_index
    qw_requests,          \* quickwit client: the requests sent so far
    qw_responses,         \* quickwit client: what _request_json did for each request
    qw_result,            \* quickwit client: what ensure_index returned or raised, <<>> before
    qw_calls,             \* quickwit client: the calls of ensure_index that are over
    lr_cache_size,        \* label resolver: cache_size given to ObjectLabelResolver
    lr_cache,             \* label resolver: _cache, least recently used first
    lr_object_ids,        \* label resolver: the object_ids of the last resolve
    lr_labels,            \* label resolver: what the last resolve returned, <<>> before
    lr_calls              \* label resolver: the calls of resolve so far

rerankVars == <<rset, rq, rin, rout, rfirst, rcalls>>

keyVars == <<kq, kkeys>>

lookupVars == <<index, client, cache, last>>

pass1Vars ==
    <<dump, batch_size, pass1_limit, emitted, pending_entities, entities, pass1_done,
      languages, workers, pass1_build_search_vector, context_inputs, last_write,
      pass1_failed>>

ingestVars == <<mode, pc, exit_code, trace, runs, dump_exists>>

pass2Vars ==
    <<sample_entity_cache, context_batch_size, pass2_pc, pass2_batches, submitted,
      in_flight, futures, updated_total, pass2_contexts, pass2_contexts_before>>

pipelineVars ==
    <<skip_phases, languages_arg, pipeline_pc, phases_run, pipeline_exit,
      pipeline_uncaught>>

categoryVars == <<wd_entity, wd_limit, wd_object_ids, wd_category>>

nerVars == <<ner_entity_id, ner_labels, ner_aliases, ner_descriptions, ner_types>>

quickwitVars == <<qw_pc, qw_index_id, qw_requests, qw_responses, qw_result, qw_calls>>

resolverVars == <<lr_cache_size, lr_cache, lr_object_ids, lr_labels, lr_calls>>

vars ==
    <<rset, rq, rin, rout, rfirst, rcalls, kq, kkeys, index, client, cache, last,
      dump, batch_size, pass1_limit, emitted, pending_entities, entities, pass1_done,
      languages, workers, pass1_build_search_vector, context_inputs, last_write,
      pass1_failed, mode, pc, exit_code, trace, runs, dump_exists,
      sample_entity_cache, context_batch_size, pass2_pc, pass2_batches, submitted,
      in_flight, futures, updated_total, pass2_contexts, pass2_contexts_before,
      skip_phases, languages_arg, pipeline_pc, phases_run, pipeline_exit,
      pipeline_uncaught,
      wd_entity, wd_limit, wd_object_ids, wd_category,
      ner_entity_id, ner_labels, ner_aliases, ner_descriptions, ner_types,
      qw_pc, qw_index_id, qw_requests, qw_responses, qw_result, qw_calls,
      lr_cache_size, lr_cache, lr_object_ids, lr_labels, lr_calls>>

\* Each specification below drives one group of variables; the other groups
\* rest at these values.
RerankIdle ==
    /\ rset = <<>> /\ rq = <<>> /\ rin = <<>>
    /\ rout = <<>> /\ rfirst = <<>> /\ rcalls = 0

KeyIdle == kq = <<>> /\ kkeys = <<>>

LookupIdle == index = {} /\ client = <<>> /\ cache = <<>> /\ last = <<>>

Pass1Idle ==
    /\ dump = <<>> /\ batch_size = 1 /\ pass1_limit = 0 /\ emitted = 0
    /\ pending_entities = <<>> /\ entities = {} /\ pass1_done = FALSE
    /\ languages = <<>> /\ workers = 1 /\ pass1_build_search_vector = TRUE
    /\ context_inputs = {} /\ last_write = <<>> /\ pass1_failed = FALSE

IngestIdle ==
    /\ mode = "pass1" /\ pc = "idle" /\ exit_code = <<>> /\ trace = <<>>
    /\ runs = 1 /\ dump_exists = TRUE

Pass2Idle ==
    /\ sample_entity_cache = {} /\ context_batch_size = 1 /\ pass2_pc = "idle"
    /\ pass2_batches = <<>> /\ submitted = 0 /\ in_flight = {} /\ futures = <<>>
    /\ updated_total = 0 /\ pass2_contexts = <<>> /\ pass2_contexts_before = <<>>

PipelineIdle ==
    /\ skip_phases = {} /\ languages_arg = "en" /\ pipeline_pc = 0
    /\ phases_run = <<>> /\ pipeline_exit = <<>> /\ pipeline_uncaught = <<>>

CategoryIdle ==
    /\ wd_entity = <<>>
    /\ wd_limit = 0
    /\ wd_object_ids = <<>>
    /\ wd_category = <<>>

NerIdle ==
    /\ ner_entity_id = <<>>
    /\ ner_labels = <<>>
    /\ ner_aliases = <<>>
    /\ ner_descriptions = <<>>
    /\ ner_types = <<>>

QuickwitIdle ==
    /\ qw_pc = "idle"
    /\ qw_index_id = <<>>
    /\ qw_requests = <<>>
    /\ qw_responses = <<>>
    /\ qw_result = <<>>
    /\ qw_calls = 0

ResolverIdle ==
    /\ lr_cache_size = 0
    /\ lr_cache = <<>>
    /\ lr_object_ids = <<>>
    /\ lr_labels = <<>>
    /\ lr_calls = 0

-----------------------------------------------------------------------------
(* Generic sequence helpers.                                               *)

Range(s) == {s[i] : i \in DOMAIN s}

Min2(a, b) == IF a <= b THEN a ELSE b

Max2(a, b) == IF a >= b THEN a ELSE b

RECURSIVE SeqMax(_)
SeqMax(s) == IF Len(s) = 1 THEN s[1] ELSE Max2(s[1], SeqMax(Tail(s)))

RECURSIVE SeqMin(_)
SeqMin(s) == IF Len(s) = 1 THEN s[1] ELSE Min2(s[1], SeqMin(Tail(s)))

Prefix(s, n) == SubSeq(s, 1, Min2(Len(s), Max2(n, 0)))

\* All orderings of a finite set, as sequences without repetition.
Perms(S) == {p \in [1..Cardinality(S) -> S] : \A i, j \in DOMAIN p : i # j => p[i] # p[j]}

\* Code points of the characters that occur in entity ids and in labels.
Code(ch) ==
    CASE ch = " " -> 32 [] ch = "-" -> 45 [] ch = "0" -> 48 [] ch = "1" -> 49
      [] ch = "2" -> 50 [] ch = "3" -> 51 [] ch = "4" -> 52 [] ch = "5" -> 53
      [] ch = "6" -> 54 [] ch = "7" -> 55 [] ch = "8" -> 56 [] ch = "9" -> 57
      [] ch = "A" -> 65 [] ch = "B" -> 66 [] ch = "C" -> 67 [] ch = "D" -> 68
      [] ch = "E" -> 69 [] ch = "F" -> 70 [] ch = "G" -> 71 [] ch = "H" -> 72
      [] ch = "I" -> 73 [] ch = "J" -> 74 [] ch = "K" -> 75 [] ch = "L" -> 76
      [] ch = "M" -> 77 [] ch = "N" -> 78 [] ch = "O" -> 79 [] ch = "P" -> 80
      [] ch = "Q" -> 81 [] ch = "R" -> 82 [] ch = "S" -> 83 [] ch = "T" -> 84
      [] ch = "U" -> 85 [] ch = "V" -> 86 [] ch = "W" -> 87 [] ch = "X" -> 88
      [] ch = "Y" -> 89 [] ch = "Z" -> 90 [] ch = "_" -> 95 [] ch = "a" -> 97
      [] ch = "b" -> 98 [] ch = "c" -> 99 [] ch = "d" -> 100 [] ch = "e" -> 101
      [] ch = "f" -> 102 [] ch = "g" -> 103 [] ch = "h" -> 104 [] ch = "i" -> 105
      [] ch = "j" -> 106 [] ch = "k" -> 107 [] ch = "l" -> 108 [] ch = "m" -> 109
      [] ch = "n" -> 110 [] ch = "o" -> 111 [] ch = "p" -> 112 [] ch = "q" -> 113
      [] ch = "r" -> 114 [] ch = "s" -> 115 [] ch = "t" -> 116 [] ch = "u" -> 117
      [] ch = "v" -> 118 [] ch = "w" -> 119 [] ch = "x" -> 120 [] ch = "y" -> 121
      [] ch = "z" -> 122
      [] OTHER -> 127

\* Python's str comparison: lexicographic on the code points.
RECURSIVE StrLess(_, _)
StrLess(a, b) ==
    IF b = <<>> THEN FALSE
    ELSE IF a = <<>> THEN TRUE
    ELSE IF Head(a) # Head(b) THEN Code(Head(a)) < Code(Head(b))
    ELSE StrLess(Tail(a), Tail(b))

-----------------------------------------------------------------------------
(* Characters and the text normalisers of common.py and                    *)
(* build_elasticsearch_index.py.                                           *)

Letters == {"a", "b", "c", "d", "A", "B"}

Lowercase ==
    {"a", "b", "c", "d", "e", "f", "g", "h", "i", "j", "k", "l", "m",
     "n", "o", "p", "q", "r", "s", "t", "u", "v", "w", "x", "y", "z"}

IsAlnum(ch) == ch \in Letters \cup Lowercase

IsSpace(ch) == ch \in {" ", "\n"}

Casefold(ch) == CASE ch = "A" -> "a" [] ch = "B" -> "b" [] OTHER -> ch

CasefoldText(s) == [i \in DOMAIN s |-> Casefold(s[i])]

RECURSIVE LStrip(_)
LStrip(s) == IF s # <<>> /\ IsSpace(Head(s)) THEN LStrip(Tail(s)) ELSE s

RECURSIVE RStrip(_)
RStrip(s) ==
    IF s # <<>> /\ IsSpace(s[Len(s)]) THEN RStrip(SubSeq(s, 1, Len(s) - 1)) ELSE s

\* str.strip()
Strip(s) == RStrip(LStrip(s))

\* The loop of normalize_exact_text: alphanumerics are kept, every run of
\* other characters becomes one space.
RECURSIVE CompactRuns(_, _)
CompactRuns(s, last_space) ==
    IF s = <<>> THEN <<>>
    ELSE IF IsAlnum(Head(s)) THEN <<Head(s)>> \o CompactRuns(Tail(s), FALSE)
    ELSE IF ~last_space THEN <<" ">> \o CompactRuns(Tail(s), TRUE)
    ELSE CompactRuns(Tail(s), TRUE)

normalize_exact_text(text) == Strip(CompactRuns(Strip(CasefoldText(text)), FALSE))

\* _WHITESPACE_RE.sub(" ", text).strip()
RECURSIVE CollapseSpaces(_, _)
CollapseSpaces(s, last_space) ==
    IF s = <<>> THEN <<>>
    ELSE IF ~IsSpace(Head(s)) THEN <<Head(s)>> \o CollapseSpaces(Tail(s), FALSE)
    ELSE IF ~last_space THEN <<" ">> \o CollapseSpaces(Tail(s), TRUE)
    ELSE CollapseSpaces(Tail(s), TRUE)

\* A normaliser that trims and leaves the runs of whitespace inside.
normalize_text_strip_only(text) == Strip(text)

normalize_text(text) == Strip(CollapseSpaces(text, FALSE))

\* _TOKEN_RE.finditer: the maximal runs of alphanumeric characters.
RECURSIVE TokenRuns(_, _)
TokenRuns(s, cur) ==
    IF s = <<>> THEN (IF cur = <<>> THEN <<>> ELSE <<cur>>)
    ELSE IF IsAlnum(Head(s)) THEN TokenRuns(Tail(s), Append(cur, Head(s)))
    ELSE (IF cur = <<>> THEN <<>> ELSE <<cur>>) \o TokenRuns(Tail(s), <<>>)

tokenize(text) == TokenRuns(CasefoldText(normalize_text(text)), <<>>)

-----------------------------------------------------------------------------
(* The reranker of entity_lookup.py.                                       *)
(*                                                                         *)
(* A candidate is a record [qid, label, aliases, context_string,           *)
(* coarse_type, fine_type, prior, score]; prior is in tenths, score is the *)
(* raw search score.  name_score and context_score are pairs <<num, den>>, *)
(* type_score is in halves, prior_score in tenths, final_score is a pair   *)
(* <<num, den>> whose den is the same for every candidate of one call.     *)

WeightName == 62

WeightContext == 23

WeightType == 10

WeightPrior == 5

ExactBonus == 5

_normalize_score_range(values) ==
    IF values = <<>> THEN <<>>
    ELSE LET max_v == SeqMax(values)
             min_v == SeqMin(values)
         IN  IF max_v <= min_v
             THEN [i \in DOMAIN values |-> <<IF max_v > 0 THEN 1 ELSE 0, 1>>]
             ELSE [i \in DOMAIN values |-> <<values[i] - min_v, max_v - min_v>>]

_context_score(context_string, context_terms) ==
    LET den == Max2(1, Cardinality(context_terms))
        doc_terms == Range(tokenize(context_string))
    IN  IF context_terms = {} THEN <<0, den>>
        ELSE IF doc_terms = {} THEN <<0, den>>
        ELSE <<Cardinality(doc_terms \cap context_terms), den>>

_type_score(coarse_type, fine_type, coarse_hints, fine_hints) ==
    IF fine_hints # {} /\ fine_type \in fine_hints THEN 2
    ELSE IF coarse_hints # {} /\ coarse_type \in coarse_hints THEN 1
    ELSE 0

RECURSIVE DedupeFrom(_, _)
DedupeFrom(candidates, seen) ==
    IF candidates = <<>> THEN <<>>
    ELSE IF Head(candidates).qid \in seen THEN DedupeFrom(Tail(candidates), seen)
    ELSE <<Head(candidates)>> \o
         DedupeFrom(Tail(candidates), seen \cup {Head(candidates).qid})

_dedupe_candidates(candidates) == DedupeFrom(candidates, {})

exact_name_match(candidate, mention_norm) ==
    \/ normalize_exact_text(candidate.label) = mention_norm
    \/ mention_norm \in {normalize_exact_text(a) : a \in Range(candidate.aliases)}

\* One iteration of the scoring loop of rerank_candidates.
score_candidate(candidate, name_score, q) ==
    LET nd == name_score[2]
        context_score == _context_score(candidate.context_string, Range(q.context_terms))
        cd == context_score[2]
        type_score == _type_score(candidate.coarse_type, candidate.fine_type,
                                  Range(q.coarse_hints), Range(q.fine_hints))
        exact == exact_name_match(candidate, q.mention_norm)
        pinned == q.exact_mode /\ exact
        name_num == IF pinned THEN nd ELSE name_score[1]
        final_num == WeightName * name_num * cd * 2 * 10
                     + WeightContext * context_score[1] * nd * 2 * 10
                     + WeightType * type_score * nd * cd * 10
                     + WeightPrior * candidate.prior * nd * cd * 2
                     + (IF pinned THEN ExactBonus * nd * cd * 2 * 10 ELSE 0)
    IN  [qid |-> candidate.qid, label |-> candidate.label,
         aliases |-> candidate.aliases,
         context_string |-> candidate.context_string,
         coarse_type |-> candidate.coarse_type, fine_type |-> candidate.fine_type,
         prior |-> candidate.prior, score |-> candidate.score,
         name_score |-> <<name_num, nd>>, context_score |-> context_score,
         type_score |-> type_score, prior_score |-> candidate.prior,
         exact_name_match |-> exact,
         final_score |-> <<final_num, 100 * nd * cd * 2 * 10>>]

\* Comparison of the sort keys: three numbers, then the qid as a string.
KeyLess(k1, k2) ==
    IF k1[1] # k2[1] THEN k1[1] < k2[1]
    ELSE IF k1[2] # k2[2] THEN k1[2] < k2[2]
    ELSE IF k1[3] # k2[3] THEN k1[3] < k2[3]
    ELSE StrLess(k1[4], k2[4])

\* list.sort is stable: an element goes after every element it does not
\* sort before (with reverse=True, after every element it does not sort
\* after).
RECURSIVE InsertPair(_, _, _)
InsertPair(p, sorted, reverse) ==
    IF sorted = <<>> THEN <<p>>
    ELSE IF (IF reverse THEN KeyLess(Head(sorted)[1], p[1])
                        ELSE KeyLess(p[1], Head(sorted)[1]))
         THEN <<p>> \o sorted
         ELSE <<Head(sorted)>> \o InsertPair(p, Tail(sorted), reverse)

RECURSIVE SortPairs(_, _)
SortPairs(ps, reverse) ==
    IF ps = <<>> THEN <<>>
    ELSE InsertPair(ps[Len(ps)], SortPairs(SubSeq(ps, 1, Len(ps) - 1), reverse), reverse)

SortBy(s, Key(_), reverse) ==
    LET sorted == SortPairs([i \in DOMAIN s |-> <<Key(s[i]), s[i]>>], reverse)
    IN  [i \in DOMAIN s |-> sorted[i][2]]

ExactFlag(item) == IF item.exact_name_match THEN 1 ELSE 0

ReverseSortKey(item) ==
    <<item.final_score[1], ExactFlag(item), item.prior_score, item.qid>>

AscendingSortKey(item) ==
    <<-item.final_score[1], -ExactFlag(item), -item.prior_score, item.qid>>

FinalOnlySortKey(item) == <<-item.final_score[1], 0, 0, <<>>>>

\* Mutation: only the first sort (reverse=True), so ties end in descending qid.
sort_scored_reverse_only(scored) == SortBy(scored, ReverseSortKey, TRUE)

\* Mutation: one stable sort on the final score alone, no tie-break.
sort_scored_final_only(scored) == SortBy(scored, FinalOnlySortKey, FALSE)

\* The two scored.sort calls at the end of rerank_candidates.
sort_scored(scored) == SortBy(SortBy(scored, ReverseSortKey, TRUE), AscendingSortKey, FALSE)

rerank_candidates(candidates, q) ==
    LET deduped == _dedupe_candidates(candidates)
        raw_scores == [i \in DOMAIN deduped |-> deduped[i].score]
        normalized_name_scores == _normalize_score_range(raw_scores)
        scored == [i \in DOMAIN deduped |->
                      score_candidate(deduped[i], normalized_name_scores[i], q)]
    IN  IF deduped = <<>> THEN <<>> ELSE Prefix(sort_scored(scored), q.limit)

-----------------------------------------------------------------------------
(* Rerank harness: rerank_candidates applied to bounded inputs.  The       *)
(* candidate set and the query are drawn in Init; the first call takes the *)
(* candidates in ascending qid order, every later call takes them in any   *)
(* order, possibly followed by a second hit for a qid already in the list. *)

MaxLimit == 2

QidPool == {<<"Q", "1">>, <<"Q", "1", "0">>, <<"Q", "9">>}

NamePool == {<<"A">>, <<"b">>}

ScorePool == {1, 2}

SignalPool ==
    {[context_string |-> <<"c">>, coarse_type |-> "PRODUCT", fine_type |-> "FOOD",
      prior |-> 0],
     [context_string |-> <<>>, coarse_type |-> "ORGANIZATION", fine_type |-> "COMPANY",
      prior |-> 3]}

ProfilePool == NamePool \X ScorePool \X SignalPool

Candidate(qid, profile) ==
    [qid |-> qid, label |-> profile[1], aliases |-> <<>>,
     context_string |-> profile[3].context_string,
     coarse_type |-> profile[3].coarse_type, fine_type |-> profile[3].fine_type,
     prior |-> profile[3].prior, score |-> profile[2]]

RerankQueries ==
    {[mention_norm |-> <<"a">>, context_terms |-> <<"c", "d">>,
      coarse_hints |-> <<>>, fine_hints |-> <<"COMPANY">>,
      exact_mode |-> m, limit |-> l] : m \in BOOLEAN, l \in 1..MaxLimit}

CandidateSets == UNION {[S -> ProfilePool] : S \in SUBSET QidPool}

AscendingQids(S) ==
    CHOOSE p \in Perms(S) : \A i, j \in DOMAIN p : i < j => StrLess(p[i], p[j])

InOrder(set, order) == [i \in DOMAIN order |-> Candidate(order[i], set[order[i]])]

\* The candidate lists a caller can build from a candidate set: every
\* order, and every order followed by a stale second hit of its first qid.
InputLists(set) ==
    LET plain == {InOrder(set, p) : p \in Perms(DOMAIN set)}
    IN  plain \cup {Append(l, [l[1] EXCEPT !.score = 3 - @]) : l \in plain \ {<<>>}}

DistinctQids(l) == \A i, j \in DOMAIN l : i # j => l[i].qid # l[j].qid

RerankInit ==
    /\ rset \in CandidateSets
    /\ rq \in RerankQueries
    /\ rin = <<>>
    /\ rout = <<>>
    /\ rfirst = <<>>
    /\ rcalls = 0
    /\ KeyIdle
    /\ LookupIdle
    /\ Pass1Idle
    /\ IngestIdle
    /\ Pass2Idle
    /\ PipelineIdle
    /\ CategoryIdle
    /\ NerIdle
    /\ QuickwitIdle
    /\ ResolverIdle

RerankFirst ==
    /\ rcalls = 0
    /\ rin' = InOrder(rset, AscendingQids(DOMAIN rset))
    /\ rout' = rerank_candidates(rin', rq)
    /\ rfirst' = rout'
    /\ rcalls' = 1
    /\ UNCHANGED <<rset, rq, keyVars, lookupVars, pass1Vars, ingestVars, pass2Vars>>
    /\ UNCHANGED pipelineVars
    /\ UNCHANGED categoryVars
    /\ UNCHANGED nerVars
    /\ UNCHANGED quickwitVars
    /\ UNCHANGED resolverVars

RerankAgain ==
    /\ rcalls >= 1
    /\ \E l \in InputLists(rset) :
          /\ rin' = l
          /\ rout' = rerank_candidates(l, rq)
    /\ rcalls' = 2
    /\ UNCHANGED <<rset, rq, rfirst, keyVars, lookupVars, pass1Vars, ingestVars, pass2Vars>>
    /\ UNCHANGED pipelineVars
    /\ UNCHANGED categoryVars
    /\ UNCHANGED nerVars
    /\ UNCHANGED quickwitVars
    /\ UNCHANGED resolverVars

RerankNext == RerankFirst \/ RerankAgain

SpecRerank == RerankInit /\ [][RerankNext]_vars

-----------------------------------------------------------------------------
(* Claims about the reranker.                                              *)

\* The order the claim states: a may stand directly before b.
RanksBefore(a, b) ==
    \/ a.final_score[1] > b.final_score[1]
    \/ /\ a.final_score[1] = b.final_score[1]
       /\ \/ a.exact_name_match /\ ~b.exact_name_match
          \/ /\ a.exact_name_match = b.exact_name_match
             /\ \/ a.prior_score > b.prior_score
                \/ /\ a.prior_score = b.prior_score
                   /\ StrLess(a.qid, b.qid)

RankedInOrder(l) == \A i \in 1..(Len(l) - 1) : RanksBefore(l[i], l[i + 1])

FirstHit(l, qid) == l[CHOOSE i \in DOMAIN l : l[i].qid = qid /\ \A j \in 1..(i - 1) : l[j].qid # qid]

\* full ranks exactly the de-duplicated candidates of input (first hit of
\* each qid), in the claimed order.
RanksDeduped(full, input) ==
    /\ RankedInOrder(full)
    /\ {full[i].qid : i \in DOMAIN full} = {input[i].qid : i \in DOMAIN input}
    /\ DistinctQids(full)
    /\ \A i \in DOMAIN full : full[i].score = FirstHit(input, full[i].qid).score

\* C4: adjacent candidates of the list returned by rerank_candidates are
\* ordered by final_score descending, then exact name match first, then
\* prior_score descending, then qid ascending (lexicographic), and the list
\* is the first `limit` elements of that order over the de-duplicated
\* candidates.
C4_RerankOrder ==
    rcalls >= 1 =>
        /\ RankedInOrder(rout)
        /\ RanksDeduped(rerank_candidates(rin, [rq EXCEPT !.limit = Len(rin)]), rin)
        /\ rout = Prefix(rerank_candidates(rin, [rq EXCEPT !.limit = Len(rin)]), rq.limit)

\* C4 witness: a call on a list with a repeated qid and more candidates
\* than `limit` whose two best candidates tie on final score, exact match
\* and prior, so that the qid decides.
C4_Witness ==
    /\ rcalls = 2
    /\ ~DistinctQids(rin)
    /\ Len(rin) > rq.limit + 1
    /\ Len(rout) = 2
    /\ rout[1].final_score = rout[2].final_score
    /\ rout[1].exact_name_match = rout[2].exact_name_match
    /\ rout[1].prior_score = rout[2].prior_score

\* C5: the reranker is stable: on the same candidates with distinct qids,
\* passed in whatever order, and the same query, rerank_candidates returns
\* the same list (same order, same scores) as the first call did.
C5_RerankStable ==
    (rcalls = 2 /\ DistinctQids(rin)) => rout = rfirst

\* C5 witness: a second call on another order of at least two candidates
\* whose two best candidates tie on the final score.
C5_Witness ==
    /\ rcalls = 2
    /\ DistinctQids(rin)
    /\ rin # InOrder(rset, AscendingQids(DOMAIN rset))
    /\ Len(rout) = 2
    /\ rout[1].final_score = rout[2].final_score
    /\ rout = rfirst

-----------------------------------------------------------------------------
(* The query-cache key: build_cache_key of entity_lookup.py.               *)

\* The member names of a payload in the order sort_keys=True writes them.
JsonKeyOrder ==
    <<"coarse_hints", "context_terms", "crosslink_terms", "fine_hints",
      "include_top_k", "limit", "mention_norm">>

\* json.dumps(payload, sort_keys=True, separators=(",", ":")): the members of
\* the payload in key order, each written as its name and its value.  A
\* string, a list of strings, an integer and a boolean have one text each,
\* and the texts of two different values differ.
json_dumps(payload) ==
    LET names == SelectSeq(JsonKeyOrder, LAMBDA k : k \in DOMAIN payload)
    IN  [i \in DOMAIN names |-> <<names[i], payload[names[i]]>>]

\* hashlib.sha256(...).hexdigest(): a digest stands for the text it was
\* computed from (no collisions).
sha256_hexdigest(encoded) == <<"sha256", encoded>>

build_cache_key(mention_norm, context_terms, coarse_hints, fine_hints, limit, include_top_k) ==
    sha256_hexdigest(json_dumps(
        [mention_norm |-> mention_norm, context_terms |-> context_terms,
         coarse_hints |-> coarse_hints, fine_hints |-> fine_hints,
         limit |-> limit, include_top_k |-> include_top_k]))

\* The key lookup computes for a normalised query.  A query may carry
\* crosslink terms; lookup has no such parameter and hands none to
\* build_cache_key.
lookup_cache_key(q) ==
    build_cache_key(q.mention_norm, q.context_terms, q.coarse_hints,
                    q.fine_hints, q.limit, q.include_top_k)

\* Cache-key harness: two normalised queries are drawn in Init and their
\* keys are built.
KeyQueries ==
    [mention_norm : {<<"a">>, <<"b">>},
     context_terms : {<<>>, <<"c">>},
     crosslink_terms : {<<>>, <<"x">>},
     coarse_hints : {<<>>, <<"T">>},
     fine_hints : {<<>>, <<"T">>},
     limit : 1..MaxLimit,
     include_top_k : BOOLEAN]

KeyInit ==
    /\ kq \in KeyQueries \X KeyQueries
    /\ kkeys = <<>>
    /\ RerankIdle
    /\ LookupIdle
    /\ Pass1Idle
    /\ IngestIdle
    /\ Pass2Idle
    /\ PipelineIdle
    /\ CategoryIdle
    /\ NerIdle
    /\ QuickwitIdle
    /\ ResolverIdle

BuildKeys ==
    /\ kkeys = <<>>
    /\ kkeys' = <<lookup_cache_key(kq[1]), lookup_cache_key(kq[2])>>
    /\ UNCHANGED <<kq, rerankVars, lookupVars, pass1Vars, ingestVars, pass2Vars>>
    /\ UNCHANGED pipelineVars
    /\ UNCHANGED categoryVars
    /\ UNCHANGED nerVars
    /\ UNCHANGED quickwitVars
    /\ UNCHANGED resolverVars

KeyNext == BuildKeys

SpecKey == KeyInit /\ [][KeyNext]_vars

\* C2 (as stated): the cache key is a function of exactly the seven
\* normalised inputs mention_norm, context_terms, crosslink_terms,
\* coarse_hints, fine_hints, limit and include_top_k: two queries get the
\* same key if and only if they agree on all seven.
C2_KeyOfSevenInputs ==
    kkeys # <<>> => ((kkeys[1] = kkeys[2]) <=> (kq[1] = kq[2]))

-----------------------------------------------------------------------------
(* The lookup service: EntityLookupService of entity_lookup.py, with the   *)
(* Elasticsearch index it searches and the query_cache table it reads and  *)
(* writes.                                                                 *)

\* An optional value: None, or one present value.
None == <<>>

Some(x) == <<x>>

\* The characters _VALID_TYPE_LABEL_RE accepts, among those used here.
TypeLabelChars ==
    Letters \cup
    {"0", "1", "9", "C", "G", "L", "M", "O", "R", "T", "W", "N", "P", "D", "S", "K",
     "_", ".", ":", "/", "-"}

ValidTypeLabel(value) == value # <<>> /\ \A i \in DOMAIN value : value[i] \in TypeLabelChars

\* The loop of normalize_type_labels: strip, skip the empty, reject the
\* invalid, keep the first occurrence of each label.
RECURSIVE NormalizeTypeLabelsFrom(_, _)
NormalizeTypeLabelsFrom(type_labels, normalized) ==
    IF type_labels = <<>> THEN [raised |-> FALSE, value |-> normalized]
    ELSE LET value == Strip(Head(type_labels))
         IN  IF value = <<>> THEN NormalizeTypeLabelsFrom(Tail(type_labels), normalized)
             ELSE IF ~ValidTypeLabel(value) THEN [raised |-> TRUE, value |-> <<>>]
             ELSE IF value \in Range(normalized)
                  THEN NormalizeTypeLabelsFrom(Tail(type_labels), normalized)
             ELSE NormalizeTypeLabelsFrom(Tail(type_labels), Append(normalized, value))

normalize_type_labels(type_labels) == NormalizeTypeLabelsFrom(type_labels, <<>>)

\* Appends the tokens not seen yet, in order.
RECURSIVE AppendUnseen(_, _)
AppendUnseen(normalized, tokens) ==
    IF tokens = <<>> THEN normalized
    ELSE IF Head(tokens) \in Range(normalized) THEN AppendUnseen(normalized, Tail(tokens))
    ELSE AppendUnseen(Append(normalized, Head(tokens)), Tail(tokens))

\* normalize_context_inputs on a list of context strings (None is the empty
\* list, one string a list of one).
RECURSIVE NormalizeContextFrom(_, _)
NormalizeContextFrom(values, normalized) ==
    IF values = <<>> THEN normalized
    ELSE LET stripped == Strip(Head(values))
         IN  IF stripped = <<>> THEN NormalizeContextFrom(Tail(values), normalized)
             ELSE NormalizeContextFrom(Tail(values),
                                       AppendUnseen(normalized, tokenize(stripped)))

normalize_context_inputs(mention_context) == NormalizeContextFrom(mention_context, <<>>)

DEFAULT_FUZZY_TOPK == 20

\* The alpaca_exact normalizer of the keyword sub-fields: lowercase.
es_normalize(text) == CasefoldText(text)

\* The alpaca_text analyzer of the text fields: standard tokenizer, lowercase.
es_analyze(text) == tokenize(text)

\* A filter that leaves the fine-type hints out.
_type_filters_coarse_only(coarse_hints, fine_hints) ==
    IF coarse_hints # <<>> THEN <<[field |-> "coarse_type", terms |-> coarse_hints]>>
    ELSE <<>>

_type_filters(coarse_hints, fine_hints) ==
    (IF coarse_hints # <<>> THEN <<[field |-> "coarse_type", terms |-> coarse_hints]>>
     ELSE <<>>)
    \o (IF fine_hints # <<>> THEN <<[field |-> "fine_type", terms |-> fine_hints]>>
        ELSE <<>>)

\* A bool query's filter clauses: a document must pass every terms filter.
PassesFilters(doc, filters) ==
    \A i \in DOMAIN filters : doc[filters[i].field] \in Range(filters[i].terms)

\* The sort of both queries: _score descending, prior descending, qid ascending.
EsSortsBefore(h1, h2) ==
    \/ h1._score > h2._score
    \/ /\ h1._score = h2._score
       /\ \/ h1._source.prior > h2._source.prior
          \/ /\ h1._source.prior = h2._source.prior
             /\ StrLess(h1._source.qid, h2._source.qid)

\* Elasticsearch answering a bool query: the documents with a matching
\* should clause that pass the filters, sorted, the first `size` of them.
es_search(scored, filters, size) ==
    LET matching == {h \in scored : h._score > 0 /\ PassesFilters(h._source, filters)}
        sorted == CHOOSE p \in Perms(matching) :
                      \A i, j \in DOMAIN p : i < j => EsSortsBefore(p[i], p[j])
    IN  Prefix(sorted, size)

_extract_es_hits(hits) ==
    [i \in DOMAIN hits |->
        [qid |-> hits[i]._source.qid, label |-> hits[i]._source.label,
         aliases |-> hits[i]._source.aliases,
         context_string |-> hits[i]._source.context_string,
         coarse_type |-> hits[i]._source.coarse_type,
         fine_type |-> hits[i]._source.fine_type,
         prior |-> hits[i]._source.prior, score |-> hits[i]._score]]

\* The should clauses of _exact_search: term queries on label.exact
\* (boost 6) and aliases.exact (boost 4).
ExactQueryScore(doc, mention_norm) ==
    (IF es_normalize(doc.label) = es_normalize(mention_norm) THEN 6 ELSE 0)
    + (IF \E i \in DOMAIN doc.aliases :
             es_normalize(doc.aliases[i]) = es_normalize(mention_norm)
       THEN 4 ELSE 0)

_exact_search(docs, mention_norm, coarse_hints, fine_hints, size) ==
    IF mention_norm = <<>> THEN <<>>
    ELSE _extract_es_hits(es_search(
             {[_source |-> d, _score |-> ExactQueryScore(d, mention_norm)] : d \in docs},
             _type_filters(coarse_hints, fine_hints), size))

\* The should clauses of _fuzzy_search, each scored by its boost (doubled, to
\* stay in the integers): multi_match over label^5 and aliases^3 with
\* operator "and", match on label (4), match on aliases (2) and, with
\* context terms, match on context_string (1.5).  Tokens this short get no
\* edit distance from fuzziness AUTO.
FuzzyQueryScore(doc, mention, context_terms) ==
    LET terms == Range(es_analyze(mention))
        label_terms == Range(es_analyze(doc.label))
        alias_terms == UNION {Range(es_analyze(doc.aliases[i])) : i \in DOMAIN doc.aliases}
        context == Range(es_analyze(doc.context_string))
        all_in(field) == terms # {} /\ terms \subseteq field
        any_in(field) == terms \cap field # {}
    IN  Max2(IF all_in(label_terms) THEN 10 ELSE 0, IF all_in(alias_terms) THEN 6 ELSE 0)
        + (IF any_in(label_terms) THEN 8 ELSE 0)
        + (IF any_in(alias_terms) THEN 4 ELSE 0)
        + (IF Range(context_terms) \cap context # {} THEN 3 ELSE 0)

_fuzzy_search(docs, mention, context_terms, coarse_hints, fine_hints, size) ==
    _extract_es_hits(es_search(
        {[_source |-> d, _score |-> FuzzyQueryScore(d, mention, context_terms)] : d \in docs},
        _type_filters(coarse_hints, fine_hints), size))

\* get_query_cache: the cached result of a key, or None.
get_query_cache(store, cache_key) ==
    IF cache_key \in DOMAIN store THEN Some(store[cache_key]) ELSE None

\* A put whose row is written although the statement reports a failure.
put_query_cache_despite_failure(store, cache_key, result, failed) ==
    (cache_key :> result) @@ store

\* put_query_cache: one INSERT ... ON CONFLICT (cache_key) DO UPDATE in one
\* transaction; a failed statement leaves the table as it was.
put_query_cache(store, cache_key, result, failed) ==
    IF failed THEN store ELSE (cache_key :> result) @@ store

\* What a call of lookup does when it raises: no response, nothing written.
Raised(kind, store, searches) ==
    [outcome |-> kind, response |-> None, store |-> store, searches |-> searches]

\* EntityLookupService.lookup.  `fault` names the collaborator that fails
\* during this call, if any: the cache read ("get"), the exact search
\* ("exact"), the fuzzy search ("fuzzy") or the cache write ("put").
lookup(docs, store, req, include_top_k, fault) ==
    LET mention_value == Strip(req.mention)
        mention_norm == normalize_exact_text(mention_value)
        normalized_coarse == normalize_type_labels(req.coarse_hints)
        normalized_fine == normalize_type_labels(req.fine_hints)
        context_terms == normalize_context_inputs(req.mention_context)
        limit == Max2(1, Min2(100, req.top_k))
        cache_key == build_cache_key(mention_norm, context_terms, normalized_coarse.value,
                                     normalized_fine.value, limit, include_top_k)
        cached == get_query_cache(store, cache_key)
        exact_hits == _exact_search(docs, mention_norm, normalized_coarse.value,
                                    normalized_fine.value, Max2(10, limit))
        strategy == IF Len(exact_hits) = 1 THEN "exact"
                    ELSE IF Len(exact_hits) > 1 THEN "exact_disambiguated"
                    ELSE "fuzzy"
        fuzzy_hits == _fuzzy_search(docs, mention_value, context_terms,
                                    normalized_coarse.value, normalized_fine.value,
                                    Max2(limit, DEFAULT_FUZZY_TOPK))
        query(exact_mode, rerank_limit) ==
            [mention_norm |-> mention_norm, context_terms |-> context_terms,
             coarse_hints |-> normalized_coarse.value,
             fine_hints |-> normalized_fine.value,
             exact_mode |-> exact_mode, limit |-> rerank_limit]
        ranked == IF strategy = "exact" THEN rerank_candidates(exact_hits, query(TRUE, 1))
                  ELSE IF strategy = "exact_disambiguated"
                       THEN rerank_candidates(exact_hits, query(TRUE, limit))
                  ELSE rerank_candidates(fuzzy_hits, query(FALSE, limit))
        base == [mention |-> mention_value, mention_norm |-> mention_norm,
                 mention_context_terms |-> context_terms,
                 coarse_hints |-> normalized_coarse.value,
                 fine_hints |-> normalized_fine.value,
                 strategy |-> strategy, returned |-> Len(ranked),
                 top1 |-> IF ranked # <<>> THEN Some(ranked[1]) ELSE None,
                 cache_hit |-> FALSE]
        response == IF include_top_k THEN base @@ [top_k |-> ranked] ELSE base
        searches == IF strategy = "fuzzy" THEN 2 ELSE 1
    IN  IF mention_value = <<>> THEN Raised("ValueError", store, 0)
        ELSE IF mention_norm = <<>> THEN Raised("ValueError", store, 0)
        ELSE IF normalized_coarse.raised THEN Raised("ValueError", store, 0)
        ELSE IF normalized_fine.raised THEN Raised("ValueError", store, 0)
        ELSE IF req.use_cache /\ fault = "get" THEN Raised("StoreError", store, 0)
        ELSE IF req.use_cache /\ cached # None
             THEN [outcome |-> "ok",
                   response |-> Some([cached[1] EXCEPT !.cache_hit = TRUE]),
                   store |-> store, searches |-> 0]
        ELSE IF fault = "exact" THEN Raised("ElasticsearchClientError", store, 1)
        ELSE IF strategy = "fuzzy" /\ fault = "fuzzy"
             THEN Raised("ElasticsearchClientError", store, 2)
        ELSE IF req.use_cache /\ fault = "put"
             THEN Raised("StoreError",
                         put_query_cache(store, cache_key, response, TRUE), searches)
        ELSE [outcome |-> "ok", response |-> Some(response),
              store |-> IF req.use_cache
                        THEN put_query_cache(store, cache_key, response, FALSE)
                        ELSE store,
              searches |-> searches]

\* The lookup service under a client: the index is built before the service
\* starts and lookup never writes to it; every call is one step.
TypeORG == <<"O", "R", "G">>

TypeCOM == <<"C", "O", "M">>

TypePRD == <<"P", "R", "D">>

TypeSNK == <<"S", "N", "K">>

TypeLOC == <<"L", "O", "C">>

TypeTWN == <<"T", "W", "N">>

IndexDocs ==
    {[qid |-> <<"Q", "1">>, label |-> <<"A">>, aliases |-> <<>>,
      context_string |-> <<"c">>, coarse_type |-> TypeORG, fine_type |-> TypeCOM,
      prior |-> 3],
     [qid |-> <<"Q", "1", "0">>, label |-> <<"a">>, aliases |-> <<>>,
      context_string |-> <<>>, coarse_type |-> TypePRD, fine_type |-> TypeSNK,
      prior |-> 0],
     [qid |-> <<"Q", "9">>, label |-> <<"a", " ", "b">>, aliases |-> <<>>,
      context_string |-> <<"d">>, coarse_type |-> TypeLOC, fine_type |-> TypeTWN,
      prior |-> 1]}

\* A client posts to /lookup or to /debug/lookup (include_top_k) and sends
\* the type hints of one upstream typer.
Clients ==
    [include_top_k : BOOLEAN,
     hints : {[coarse_hints |-> <<>>, fine_hints |-> <<>>],
              [coarse_hints |-> <<>>, fine_hints |-> <<<<" ">> \o TypeCOM, TypeCOM>>],
              [coarse_hints |-> <<TypeLOC>>, fine_hints |-> <<>>]}]

\* The requests of a client: its hints as they are, or with a malformed
\* label among the coarse hints.
LookupRequests(c) ==
    {[mention |-> m, mention_context |-> <<>>,
      coarse_hints |-> c.hints.coarse_hints \o bad, fine_hints |-> c.hints.fine_hints,
      top_k |-> k, use_cache |-> u] :
        m \in {<<"A">>, <<"a">>, <<"!">>, <<" ">>}, bad \in {<<>>, <<<<"O", "!">>>>},
        k \in {0, 1, 101}, u \in BOOLEAN}

Faults == {"none", "get", "exact", "fuzzy", "put"}

\* Before the first call.
NoCall ==
    [request |-> None, outcome |-> "none", response |-> None, searches |-> 0,
     wrote |-> FALSE]

LookupInit ==
    /\ index = IndexDocs
    /\ client \in Clients
    /\ cache = <<>>
    /\ last = NoCall
    /\ RerankIdle
    /\ KeyIdle
    /\ Pass1Idle
    /\ IngestIdle
    /\ Pass2Idle
    /\ PipelineIdle
    /\ CategoryIdle
    /\ NerIdle
    /\ QuickwitIdle
    /\ ResolverIdle

Lookup ==
    /\ \E req \in LookupRequests(client), fault \in Faults :
          \E result \in {lookup(index, cache, req, client.include_top_k, fault)} :
              /\ cache' = result.store
              /\ last' = [request |-> Some(req), outcome |-> result.outcome,
                          response |-> result.response, searches |-> result.searches,
                          wrote |-> result.store # cache]
    /\ UNCHANGED <<index, client, rerankVars, keyVars, pass1Vars, ingestVars, pass2Vars>>
    /\ UNCHANGED pipelineVars
    /\ UNCHANGED categoryVars
    /\ UNCHANGED nerVars
    /\ UNCHANGED quickwitVars
    /\ UNCHANGED resolverVars

LookupNext == Lookup

SpecLookup == LookupInit /\ [][LookupNext]_vars

-----------------------------------------------------------------------------
(* Claims about the lookup service.                                        *)

Failures == {"ValueError", "StoreError", "ElasticsearchClientError"}

\* The normalised inputs of a request that passed validation.
NormalizedInputs(req) ==
    [mention_norm |-> normalize_exact_text(Strip(req.mention)),
     context_terms |-> normalize_context_inputs(req.mention_context),
     coarse_hints |-> normalize_type_labels(req.coarse_hints).value,
     fine_hints |-> normalize_type_labels(req.fine_hints).value,
     limit |-> Max2(1, Min2(100, req.top_k)),
     include_top_k |-> client.include_top_k]

\* What lookup computes for a request without reading or writing the cache.
FreshResponse(req) ==
    lookup(index, <<>>, [req EXCEPT !.use_cache = FALSE],
           client.include_top_k, "none").response[1]

\* The candidates a response shows: top1 and, when present, top_k.
ResponseCandidates(response) ==
    Range(response.top1)
    \cup (IF "top_k" \in DOMAIN response THEN Range(response.top_k) ELSE {})

\* C1 (as stated): of two successive lookups with use_cache=true whose
\* normalised inputs (mention_norm, context_terms, coarse_hints, fine_hints,
\* limit, include_top_k) are identical, the first finding no entry for the
\* key, the first response has cache_hit=false, the second has cache_hit=true
\* and every other field of the second response equals what a fresh,
\* uncached computation of the second request returns, also when the raw
\* mentions differ.
C1_CachedEqualsFresh ==
    [][(/\ last.outcome = "ok" /\ last.request[1].use_cache /\ last.wrote
        /\ last'.outcome = "ok" /\ last'.request[1].use_cache
        /\ NormalizedInputs(last.request[1]) = NormalizedInputs(last'.request[1]))
       => /\ ~last.response[1].cache_hit
          /\ last'.response[1].cache_hit
          /\ [last'.response[1] EXCEPT !.cache_hit = FALSE]
                = FreshResponse(last'.request[1])]_vars

\* C3: a lookup that ends in a validation error (empty or punctuation-only
\* mention, type hint with a disallowed character) or in a search or store
\* failure never writes to the query cache: the cache entries after the
\* failed lookup are the entries before it, whatever lookups came before.
C3_FailedLookupWritesNothing ==
    [][last'.outcome \in Failures => cache' = cache]_vars

\* A cache write failed after both searches ran, with an entry of an
\* earlier lookup in the cache.
C3_Witness ==
    /\ last.outcome = "StoreError"
    /\ last.searches = 2
    /\ cache # <<>>

\* C6: whenever coarse_hints is non-empty every candidate of a lookup
\* response (top1 and top_k) has its coarse_type among the coarse hints, and
\* whenever fine_hints is non-empty every candidate has its fine_type among
\* the fine hints, whichever search matched it.
C6_TypeHintsGuardCandidates ==
    last.outcome = "ok" =>
        LET hints == NormalizedInputs(last.request[1])
        IN  \A c \in ResponseCandidates(last.response[1]) :
                /\ hints.coarse_hints # <<>> => c.coarse_type \in Range(hints.coarse_hints)
                /\ hints.fine_hints # <<>> => c.fine_type \in Range(hints.fine_hints)

\* A response with a ranked list under a fine-type hint that a document
\* with the mention's name does not satisfy.
C6_Witness ==
    /\ last.outcome = "ok"
    /\ client.include_top_k
    /\ last.response[1].fine_hints # <<>>
    /\ last.response[1].top_k # <<>>
    /\ \E d \in index :
          /\ es_normalize(d.label) = last.response[1].mention_norm
          /\ d.fine_type \notin Range(last.response[1].fine_hints)

\* C7 (as stated): every lookup response carries strategy = "fuzzy"; no
\* other strategy value is ever returned.
C7_StrategyAlwaysFuzzy ==
    last.outcome = "ok" => last.response[1].strategy = "fuzzy"

-----------------------------------------------------------------------------
(* Pass 1 of the ingestion: run_pass1 of build_postgres_entities.py reads  *)
(* the dump, transforms each entity into a record and upserts the records  *)
(* batch by batch into the entities table.                                 *)

\* str.startswith("Q") or str.startswith("P").
is_supported_entity_id(entity_id) ==
    entity_id # <<>> /\ (Head(entity_id) = "Q" \/ Head(entity_id) = "P")

\* The languages that occur, in sorted order.
SortedLanguages == <<"de", "en">>

\* extract_value_map: the languages whose value is not empty once
\* normalised, each with its normalised value.
extract_value_map(raw_value_map) ==
    LET kept == {l \in DOMAIN raw_value_map : normalize_text(raw_value_map[l]) # <<>>}
    IN  [l \in kept |-> normalize_text(raw_value_map[l])]

\* _first_non_empty_text: the first language in sorted order whose value is
\* not empty.
_first_non_empty_text(value_map) ==
    LET present == SelectSeq(SortedLanguages,
                             LAMBDA l : l \in DOMAIN value_map
                                        /\ normalize_text(value_map[l]) # <<>>)
    IN  IF present = <<>> THEN None ELSE Some(present[1])

\* select_text_map_languages with fallback_to_any=True.
select_text_map_languages(value_map, preferred_languages) ==
    LET chosen == {l \in Range(preferred_languages) \cap DOMAIN value_map :
                      normalize_text(value_map[l]) # <<>>}
        fallback == _first_non_empty_text(value_map)
    IN  IF chosen # {} THEN [l \in chosen |-> normalize_text(value_map[l])]
        ELSE IF fallback = None THEN <<>>
        ELSE [l \in {fallback[1]} |-> normalize_text(value_map[l])]

_pick_primary_label(labels) ==
    IF "en" \in DOMAIN labels /\ Strip(labels["en"]) # <<>> THEN Strip(labels["en"])
    ELSE LET present == SelectSeq(SortedLanguages,
                                  LAMBDA l : l \in DOMAIN labels /\ Strip(labels[l]) # <<>>)
         IN  IF present = <<>> THEN <<>> ELSE Strip(labels[present[1]])

\* The languages of a map, "en" first and the others in sorted order.
OrderedLanguages(language_map) ==
    SelectSeq(<<"en">>, LAMBDA l : l \in DOMAIN language_map)
    \o SelectSeq(SortedLanguages, LAMBDA l : l # "en" /\ l \in DOMAIN language_map)

\* The loop shared by extract_alias_map, select_alias_map_languages,
\* _flatten_labels_map and _flatten_aliases_map: each value is normalised,
\* an empty or already seen value is dropped, and the loop stops once cap
\* values are kept.
RECURSIVE CompactTexts(_, _, _)
CompactTexts(values, compacted, cap) ==
    IF values = <<>> THEN compacted
    ELSE LET candidate == normalize_text(Head(values))
         IN  IF candidate = <<>> \/ candidate \in Range(compacted)
             THEN CompactTexts(Tail(values), compacted, cap)
             ELSE IF Len(compacted) + 1 >= cap THEN Append(compacted, candidate)
             ELSE CompactTexts(Tail(values), Append(compacted, candidate), cap)

\* The loop without a cap.
DedupeTexts(values) == CompactTexts(values, <<>>, Len(values) + 1)

extract_alias_map(raw_alias_map) ==
    LET kept == {l \in DOMAIN raw_alias_map :
                    DedupeTexts(raw_alias_map[l]) # <<>>}
    IN  [l \in kept |-> DedupeTexts(raw_alias_map[l])]

\* select_alias_map_languages with fallback_to_any=False.
select_alias_map_languages(alias_map, preferred_languages, max_aliases) ==
    IF DOMAIN alias_map = {} \/ max_aliases <= 0 THEN <<>>
    ELSE LET chosen == {l \in Range(preferred_languages) \cap DOMAIN alias_map :
                           CompactTexts(alias_map[l], <<>>, max_aliases) # <<>>}
         IN  [l \in chosen |-> CompactTexts(alias_map[l], <<>>, max_aliases)]

\* --max-aliases-per-language, at its default.
max_aliases_per_language == 8

DEFAULT_MAX_CONTEXT_OBJECT_IDS == 32

\* extract_claim_object_ids: the object ids of the statements in statement
\* order, each once, at most limit of them.
RECURSIVE ClaimObjectIdsFrom(_, _, _)
ClaimObjectIdsFrom(statements, object_ids, limit) ==
    IF statements = <<>> \/ Len(object_ids) >= limit THEN object_ids
    ELSE IF Head(statements) \in Range(object_ids)
         THEN ClaimObjectIdsFrom(Tail(statements), object_ids, limit)
    ELSE ClaimObjectIdsFrom(Tail(statements), Append(object_ids, Head(statements)), limit)

extract_claim_object_ids(entity, limit) ==
    IF limit <= 0 THEN <<>> ELSE ClaimObjectIdsFrom(entity.claims, <<>>, limit)

_extract_popularity(entity) == entity.sitelinks

\* infer_ner_types on texts without clues, first coarse and first fine type: a
\* property is a
\* RELATION/PROPERTY; the texts of the model are made of one-letter words,
\* none of which is a clue of FINE_TYPE_RULES, so that every other entity is
\* MISC/ENTITY.
infer_ner_types_without_clues(entity_id) ==
    IF Head(entity_id) = "P"
    THEN [coarse_type |-> "RELATION", fine_type |-> "PROPERTY"]
    ELSE [coarse_type |-> "MISC", fine_type |-> "ENTITY"]

\* transform_entity_to_record: None for an id that is not supported and for
\* an entity without a label, else the record of the entity.
transform_entity_to_record(entity, language_allowlist) ==
    LET labels == select_text_map_languages(extract_value_map(entity.labels),
                                            language_allowlist)
        aliases == select_alias_map_languages(extract_alias_map(entity.aliases),
                                              language_allowlist,
                                              max_aliases_per_language)
        label == _pick_primary_label(labels)
        types == infer_ner_types_without_clues(entity.id)
    IN  IF ~is_supported_entity_id(entity.id) THEN None
        ELSE IF label = <<>> THEN None
        ELSE Some([qid |-> entity.id, label |-> label, labels |-> labels,
                   aliases |-> aliases,
                   relation_object_qids |->
                       extract_claim_object_ids(entity, DEFAULT_MAX_CONTEXT_OBJECT_IDS),
                   coarse_type |-> types.coarse_type,
                   fine_type |-> types.fine_type,
                   popularity |-> _extract_popularity(entity),
                   context_string |-> <<>>])

\* " ".join / "; ".join.
RECURSIVE Join(_, _)
Join(values, separator) ==
    IF values = <<>> THEN <<>>
    ELSE IF Len(values) = 1 THEN values[1]
    ELSE values[1] \o separator \o Join(Tail(values), separator)

RECURSIVE Concat(_)
Concat(lists) == IF lists = <<>> THEN <<>> ELSE Head(lists) \o Concat(Tail(lists))

_flatten_labels_map(labels) ==
    LET ordered_langs == OrderedLanguages(labels)
    IN  DedupeTexts([i \in DOMAIN ordered_langs |-> labels[ordered_langs[i]]])

_flatten_aliases_map(aliases) ==
    LET ordered_langs == OrderedLanguages(aliases)
    IN  DedupeTexts(Concat([i \in DOMAIN ordered_langs |-> aliases[ordered_langs[i]]]))

\* 1 - exp(-log1p(popularity) / 6) is kept as a term over the popularity.
_popularity_to_prior_local(popularity) == <<"prior", Max2(0, popularity)>>

\* _entity_search_columns: the secondary labels followed by the aliases.
_entity_search_columns(label, labels, aliases, context_string, popularity) ==
    LET primary_label_normalized == normalize_text(label)
        labels_flat == SelectSeq(_flatten_labels_map(labels),
                                 LAMBDA value : value # primary_label_normalized)
        lookup_aliases == labels_flat \o _flatten_aliases_map(aliases)
    IN  [prior |-> _popularity_to_prior_local(popularity),
         aliases |-> lookup_aliases,
         aliases_text |-> Join(lookup_aliases, <<" ">>),
         context_search_text |-> Prefix(normalize_text(context_string), 256)]

\* ''::tsvector.
EmptyVector == <<>>

\* The search vector is kept as the three texts it is built from, weights A,
\* B and D.
tsvector(label_text, aliases_text, context_text) ==
    <<[A |-> label_text, B |-> aliases_text, D |-> context_text]>>

\* The values upsert_entities binds for one record.
entity_row(record, build_search_vector) ==
    LET search_cols == _entity_search_columns(record.label, record.labels,
                                              record.aliases, record.context_string,
                                              record.popularity)
    IN  [qid |-> record.qid,
         label |-> record.label,
         context_string |-> record.context_string,
         aliases |-> search_cols.aliases,
         search_vector |-> IF build_search_vector
                           THEN tsvector(normalize_text(record.label),
                                         search_cols.aliases_text,
                                         search_cols.context_search_text)
                           ELSE EmptyVector,
         coarse_type |-> record.coarse_type,
         fine_type |-> record.fine_type,
         popularity |-> record.popularity,
         prior |-> search_cols.prior]

context_row(record) ==
    [qid |-> record.qid, relation_object_qids |-> record.relation_object_qids]

\* An upsert that keeps the row a qid already has.
upsert_row_do_nothing(table, row) ==
    IF \E r \in table : r.qid = row.qid THEN table ELSE table \cup {row}

\* INSERT ... ON CONFLICT (qid) DO UPDATE for one row: every column is set
\* from the new row.
upsert_row(table, row) == {r \in table : r.qid # row.qid} \cup {row}

\* An update that adds the new context to the one the row has.
update_context_row_append(row, context_string) ==
    [row EXCEPT !.context_string = @ \o context_string,
                !.search_vector = tsvector(row.label, Join(row.aliases, <<" ">>),
                                           Prefix(context_string, 256))]

\* UPDATE entities SET context_string = %s, search_vector = ... WHERE qid = %s,
\* for the row of the qid: the search vector is rebuilt from the label, the
\* aliases and the new context.
update_context_row(row, context_string) ==
    [row EXCEPT !.context_string = context_string,
                !.search_vector = tsvector(row.label, Join(row.aliases, <<" ">>),
                                           Prefix(context_string, 256))]

\* One statement of a transaction, run on the tables the transaction sees.
execute(store, statement) ==
    IF statement.table = "entities"
    THEN [store EXCEPT !.entities = upsert_row(@, statement.row)]
    ELSE IF statement.table = "entity_context_inputs"
    THEN [store EXCEPT !.context_inputs = upsert_row(@, statement.row)]
    ELSE [store EXCEPT !.entities =
              {IF r.qid = statement.qid
               THEN update_context_row(r, statement.context_string)
               ELSE r : r \in @}]

RECURSIVE executemany(_, _)
executemany(store, statements) ==
    IF statements = <<>> THEN store
    ELSE executemany(execute(store, Head(statements)), Tail(statements))

\* A connection that makes every statement visible as soon as it has run.
transaction_autocommit(store, statements, fail_at) ==
    IF fail_at = 0
    THEN [store |-> executemany(store, statements), raised |-> FALSE]
    ELSE [store |-> executemany(store, Prefix(statements, fail_at - 1)), raised |-> TRUE]

\* with self._connect() as conn: ... conn.commit().  fail_at = 0: every
\* statement and the commit succeed; fail_at = k: the k-th step raises (the
\* step after the last statement is the commit) and the connection rolls
\* back what ran before it.
transaction(store, statements, fail_at) ==
    LET working == executemany(store, Prefix(statements, IF fail_at = 0
                                                         THEN Len(statements)
                                                         ELSE fail_at - 1))
    IN  IF fail_at = 0
        THEN [store |-> working, raised |-> FALSE]
        ELSE [store |-> store, raised |-> TRUE]

\* The statements of upsert_entities: the entity rows, then the context
\* input rows.
upsert_statements(rows, build_search_vector) ==
    [i \in DOMAIN rows |-> [table |-> "entities",
                            row |-> entity_row(rows[i], build_search_vector)]]
    \o [i \in DOMAIN rows |-> [table |-> "entity_context_inputs",
                               row |-> context_row(rows[i])]]

\* upsert_entities: nothing to do for no rows, else one transaction.
upsert_entities(store, rows, build_search_vector, fail_at) ==
    IF rows = <<>> THEN [store |-> store, raised |-> FALSE]
    ELSE transaction(store, upsert_statements(rows, build_search_vector), fail_at)

\* The result of each transform task, in the order of the entities.
TransformBatch(raw_entities, language_allowlist) ==
    [i \in DOMAIN raw_entities |->
        transform_entity_to_record(raw_entities[i], language_allowlist)]

\* A gathering that takes the results as the tasks complete.
executor_map_as_completed(results, completion) ==
    [i \in DOMAIN results |-> results[completion[i]]]

\* executor.map: the results in the order of the tasks, whatever the order
\* in which the workers complete them.
executor_map(results, completion) == results

\* The orders in which the tasks of a batch can complete: any order on the
\* thread pool, the order of the loop without one.
CompletionOrders(raw_entities, worker_count) ==
    IF worker_count > 1 /\ Len(raw_entities) > 1
    THEN Perms(DOMAIN raw_entities)
    ELSE {[i \in DOMAIN raw_entities |-> i]}

\* The records _flush_transform_batch hands to upsert_entities.
BatchRecords(raw_entities, language_allowlist, completion) ==
    Concat(executor_map(TransformBatch(raw_entities, language_allowlist), completion))

\* _flush_transform_batch: what upsert_entities did, with the records it got.
_flush_transform_batch(store, raw_entities, language_allowlist, completion, build_search_vector, fail_at) ==
    IF raw_entities = <<>> THEN [store |-> store, raised |-> FALSE, rows |-> <<>>]
    ELSE LET records == BatchRecords(raw_entities, language_allowlist, completion)
             done == upsert_entities(store, records, build_search_vector, fail_at)
         IN  [store |-> done.store, raised |-> done.raised, rows |-> records]

\* The steps of the transaction of a batch at which a failure can strike: none
\* (0), a statement, or the commit.
FailPoints(statement_count) ==
    IF statement_count = 0 THEN {0} ELSE 0..(statement_count + 1)

MaxDump == 3

MaxBatch == 2

\* Entity ids that occur as objects of claims.
Q2 == <<"Q", "2">>

Q3 == <<"Q", "3">>

NoAliases == <<>>

\* The entities a dump is made of.
DumpEntities ==
    {[id |-> <<"Q", "1">>, labels |-> ("en" :> <<"a">>), aliases |-> NoAliases,
      claims |-> <<>>, sitelinks |-> 0],
     [id |-> <<"Q", "1">>, labels |-> ("en" :> <<"b", " ">>), aliases |-> NoAliases,
      claims |-> <<Q2>>, sitelinks |-> 1],
     [id |-> <<"Q", "1">>, labels |-> <<>>, aliases |-> ("en" :> <<<<"a">>>>),
      claims |-> <<>>, sitelinks |-> 0],
     [id |-> <<"Q", "1">>, labels |-> ("de" :> <<"c">>), aliases |-> NoAliases,
      claims |-> <<>>, sitelinks |-> 0],
     [id |-> <<"P", "1">>, labels |-> ("en" :> <<"a">>), aliases |-> NoAliases,
      claims |-> <<>>, sitelinks |-> 0],
     [id |-> <<"P", "1">>, labels |-> ("en" :> <<" ">>), aliases |-> NoAliases,
      claims |-> <<>>, sitelinks |-> 0],
     [id |-> <<"L", "1">>, labels |-> ("en" :> <<"a">>), aliases |-> NoAliases,
      claims |-> <<>>, sitelinks |-> 0],
     [id |-> <<"Q", "x">>, labels |-> ("en" :> <<"a">>), aliases |-> NoAliases,
      claims |-> <<>>, sitelinks |-> 0],
     [id |-> Q2, labels |-> ("en" :> <<" ", "a", " ", " ", "b">>),
      aliases |-> ("en" :> <<<<"a", " ", "b">>, <<"d">>, <<"d", " ">>>>),
      claims |-> <<Q3, Q2, Q3>>, sitelinks |-> 1],
     [id |-> Q2, labels |-> ("en" :> <<"a">> @@ "de" :> <<"c">>),
      aliases |-> ("de" :> <<<<"c">>, <<"d">>>>),
      claims |-> <<>>, sitelinks |-> 0]}

Dumps == UNION {[1..n -> DumpEntities] : n \in 0..MaxDump}

\* --languages: English only (the default), or English and German.
LanguageAllowlists == {<<"en">>, <<"en", "de">>}

\* active_languages of run_pass1.
ActiveLanguages == IF languages # <<>> THEN languages ELSE <<"en">>

\* The store as the statements of a transaction see it.
Store == [entities |-> entities, context_inputs |-> context_inputs]

NoWrite == None

Pass1Init ==
    /\ dump \in Dumps
    /\ batch_size \in 1..MaxBatch
    /\ pass1_limit \in {0, 2}
    /\ languages \in LanguageAllowlists
    /\ workers = 1
    /\ pass1_build_search_vector = TRUE
    /\ emitted = 0
    /\ pending_entities = <<>>
    /\ entities = {}
    /\ context_inputs = {}
    /\ last_write = NoWrite
    /\ pass1_done = FALSE
    /\ pass1_failed = FALSE
    /\ mode = "pass1" /\ pc = "pass1" /\ exit_code = None
    /\ trace = <<"run_pass1">> /\ runs = 1 /\ dump_exists = TRUE
    /\ Pass2Idle
    /\ RerankIdle
    /\ KeyIdle
    /\ LookupIdle
    /\ PipelineIdle
    /\ CategoryIdle
    /\ NerIdle
    /\ QuickwitIdle
    /\ ResolverIdle

\* iter_wikidata_entities has another entity to yield.
DumpHasNext == emitted < Len(dump) /\ (pass1_limit = 0 \/ emitted < pass1_limit)

\* One call of _flush_transform_batch by run_pass1: the workers complete the
\* transforms in some order, and the transaction of upsert_entities runs to
\* its end or fails at some step, which ends run_pass1 with the exception.
Flush(raw_entities) ==
    \E completion \in CompletionOrders(raw_entities, workers) :
        \E fail_at \in FailPoints(2 * Len(BatchRecords(raw_entities, ActiveLanguages,
                                                       completion))) :
            \E result \in {_flush_transform_batch(Store, raw_entities, ActiveLanguages,
                                                  completion, pass1_build_search_vector,
                                                  fail_at)} :
                /\ entities' = result.store.entities
                /\ context_inputs' = result.store.context_inputs
                /\ last_write' = IF raw_entities = <<>> THEN last_write
                                  ELSE Some([call |-> "upsert_entities",
                                             rows |-> result.rows,
                                             build_search_vector |-> pass1_build_search_vector,
                                             raised |-> result.raised])
                /\ pass1_failed' = result.raised

\* One turn of the loop of run_pass1: the next entity joins the batch, and a
\* full batch is flushed.
Pass1Read ==
    /\ pc = "pass1"
    /\ ~pass1_done /\ ~pass1_failed
    /\ DumpHasNext
    /\ emitted' = emitted + 1
    /\ \E batch \in {Append(pending_entities, dump[emitted + 1])} :
          IF Len(batch) >= batch_size
          THEN /\ Flush(batch)
               /\ pending_entities' = <<>>
          ELSE /\ pending_entities' = batch
               /\ UNCHANGED <<entities, context_inputs, last_write, pass1_failed>>
    /\ UNCHANGED <<dump, batch_size, pass1_limit, languages, workers,
                   pass1_build_search_vector, pass1_done>>
    /\ UNCHANGED <<ingestVars, pass2Vars, rerankVars, keyVars, lookupVars>>
    /\ UNCHANGED pipelineVars
    /\ UNCHANGED categoryVars
    /\ UNCHANGED nerVars
    /\ UNCHANGED quickwitVars
    /\ UNCHANGED resolverVars

\* After the loop: the rest of the batch is flushed and run_pass1 returns.
Pass1Finish ==
    /\ pc = "pass1"
    /\ ~pass1_done /\ ~pass1_failed
    /\ ~DumpHasNext
    /\ Flush(pending_entities)
    /\ pending_entities' = <<>>
    /\ pass1_done' = ~pass1_failed'
    /\ UNCHANGED <<dump, batch_size, pass1_limit, languages, workers,
                   pass1_build_search_vector, emitted>>
    /\ UNCHANGED <<ingestVars, pass2Vars, rerankVars, keyVars, lookupVars>>
    /\ UNCHANGED pipelineVars
    /\ UNCHANGED categoryVars
    /\ UNCHANGED nerVars
    /\ UNCHANGED quickwitVars
    /\ UNCHANGED resolverVars

Pass1Next == Pass1Read \/ Pass1Finish

SpecPass1 == Pass1Init /\ [][Pass1Next]_vars

-----------------------------------------------------------------------------
(* Pass 2 of the ingestion: run_pass2 of build_postgres_entities.py reads  *)
(* the qids of the entities table in batches and hands each batch to a     *)
(* thread pool; a task loads the relation objects of its qids, resolves    *)
(* their labels and writes the context strings in one transaction.         *)

RECURSIVE Chunks(_, _)
Chunks(s, size) ==
    IF s = <<>> THEN <<>>
    ELSE <<Prefix(s, size)>> \o Chunks(SubSeq(s, size + 1, Len(s)), size)

\* The elements of a set of texts in ascending order.
Ascending(S) ==
    CHOOSE p \in Perms(S) : \A i, j \in DOMAIN p : i < j => StrLess(p[i], p[j])

\* iter_entity_ids: SELECT qid FROM entities ORDER BY qid, fetched batch_size
\* rows at a time.
iter_entity_ids(entity_table, size) ==
    Chunks(Ascending({r.qid : r \in entity_table}), size)

\* load_context_inputs: the rows of entity_context_inputs for the qids, sorted
\* by qid.
load_context_inputs(context_table, qids) ==
    LET found == {r \in context_table : r.qid \in Range(qids)}
        order == Ascending({r.qid : r \in found})
    IN  [i \in DOMAIN order |-> CHOOSE r \in found : r.qid = order[i]]

\* _extract_sample_entity_label: the English label when it is not empty, else
\* the label of the first language in sorted order.
_extract_sample_entity_label(raw_labels) ==
    LET normalized == extract_value_map(raw_labels)
        present == SelectSeq(SortedLanguages, LAMBDA l : l \in DOMAIN normalized)
    IN  IF "en" \in DOMAIN normalized THEN Some(normalized["en"])
        ELSE IF present = <<>> THEN None
        ELSE Some(normalized[present[1]])

resolve_sample_cache_labels(cache_table, qids) ==
    LET found == {r \in cache_table : /\ r.qid \in qids
                                      /\ _extract_sample_entity_label(r.labels) # None}
    IN  [qid \in {r.qid : r \in found} |->
            _extract_sample_entity_label((CHOOSE r \in found : r.qid = qid).labels)[1]]

\* resolve_labels: the stripped label of each qid that has a row with label
\* text, and for the others the label of the sample cache.
resolve_labels(entity_table, cache_table, qids) ==
    LET found == {r \in entity_table : r.qid \in Range(qids) /\ Strip(r.label) # <<>>}
        resolved == [qid \in {r.qid : r \in found} |->
                        Strip((CHOOSE r \in found : r.qid = qid).label)]
        missing == Range(qids) \ DOMAIN resolved
    IN  IF qids = <<>> THEN <<>>
        ELSE resolved @@ resolve_sample_cache_labels(cache_table, missing)

\* The first loop of _build_context_string_for_qids: the relation objects of
\* the batch, each once, in order.
RECURSIVE RelatedIdsFrom(_, _)
RelatedIdsFrom(object_qids, related_ids) ==
    IF object_qids = <<>> THEN related_ids
    ELSE IF Head(object_qids) \in Range(related_ids)
         THEN RelatedIdsFrom(Tail(object_qids), related_ids)
    ELSE RelatedIdsFrom(Tail(object_qids), Append(related_ids, Head(object_qids)))

related_ids_of(batch) ==
    RelatedIdsFrom(Concat([i \in DOMAIN batch |-> batch[i].relation_object_qids]), <<>>)

\* The second loop: the context string of a qid is the labels of its relation
\* objects that resolve, each once, sorted and joined with "; ".
context_string_of(relation_object_qids, label_map) ==
    LET context_tokens == {Strip(label_map[o]) :
                              o \in {q \in Range(relation_object_qids) :
                                        q \in DOMAIN label_map /\ Strip(label_map[q]) # <<>>}}
    IN  Join(Ascending(context_tokens), <<";", " ">>)

context_updates(batch, label_map) ==
    [i \in DOMAIN batch |->
        [table |-> "entities.context_string",
         qid |-> batch[i].qid,
         context_string |-> context_string_of(batch[i].relation_object_qids, label_map)]]

\* update_context_strings: nothing to do for no rows, else one transaction.
update_context_strings(store, rows, fail_at) ==
    IF rows = <<>> THEN [store |-> store, raised |-> FALSE]
    ELSE transaction(store, rows, fail_at)

\* max(1, workers * 2)
in_flight_cap(worker_count) == Max2(1, worker_count * 2)

\* A producer that waits only once the cap is exceeded.
must_wait_above_cap(in_flight_count, worker_count) ==
    in_flight_count > in_flight_cap(worker_count)

\* len(in_flight) >= max(1, workers * 2): the producer waits for a batch to
\* complete before it goes on.
must_wait(in_flight_count, worker_count) ==
    in_flight_count >= in_flight_cap(worker_count)

\* The entities the dumps of an ingestion run are made of: two records of Q1
\* with different labels and claims, and the entities they refer to.
IngestEntities ==
    [one |-> [id |-> <<"Q", "1">>, labels |-> ("en" :> <<"a">>), aliases |-> NoAliases,
              claims |-> <<Q2, Q3, Q2>>, sitelinks |-> 0],
     two |-> [id |-> Q2, labels |-> ("en" :> <<"b">>), aliases |-> NoAliases,
              claims |-> <<<<"Q", "1">>>>, sitelinks |-> 1],
     again |-> [id |-> <<"Q", "1">>, labels |-> ("en" :> <<"c">>), aliases |-> NoAliases,
                claims |-> <<Q2>>, sitelinks |-> 0],
     three |-> [id |-> Q3, labels |-> ("en" :> <<"d">>), aliases |-> NoAliases,
                claims |-> <<>>, sitelinks |-> 0]]

IngestDumps ==
    {<<IngestEntities.one, IngestEntities.again, IngestEntities.two>>,
     <<IngestEntities.one, IngestEntities.two, IngestEntities.three>>,
     <<IngestEntities.again, IngestEntities.two>>}

\* The rows of sample_entity_cache: none, or the entity Q3 with a label.
SampleCaches == {{}, {[qid |-> Q3, labels |-> ("en" :> <<" ", "d">>)]}}

\* --mode
Modes == {"pass1", "pass2", "all"}

\* --workers
WorkerCounts == {1, 2}

MaxRuns == 2

IngestInit ==
    /\ dump \in IngestDumps
    /\ dump_exists \in BOOLEAN
    /\ batch_size \in 1..MaxBatch
    /\ context_batch_size \in 1..MaxBatch
    /\ pass1_limit = 0
    /\ languages = <<"en">>
    /\ workers \in WorkerCounts
    /\ mode \in Modes
    /\ sample_entity_cache \in SampleCaches
    /\ pass1_build_search_vector = TRUE
    /\ emitted = 0 /\ pending_entities = <<>>
    /\ entities = {} /\ context_inputs = {}
    /\ last_write = NoWrite
    /\ pass1_done = FALSE /\ pass1_failed = FALSE
    /\ pc = "main" /\ exit_code = None /\ trace = <<>> /\ runs = 1
    /\ pass2_pc = "idle" /\ pass2_batches = <<>> /\ submitted = 0
    /\ in_flight = {} /\ futures = <<>> /\ updated_total = 0
    /\ pass2_contexts = None /\ pass2_contexts_before = None
    /\ RerankIdle
    /\ KeyIdle
    /\ LookupIdle
    /\ PipelineIdle
    /\ CategoryIdle
    /\ NerIdle
    /\ QuickwitIdle
    /\ ResolverIdle

\* main, after run_pass1 and run_pass2 are allowed to go on after a failure
\* of pass 1.
main_after_pass1_keeps_going(run_mode, raised) ==
    IF run_mode = "all" THEN "pass2"
    ELSE IF raised THEN "except"
    ELSE "return"

\* main after run_pass1: an exception goes to the except clause, else pass 2
\* follows in mode all and main returns 0 in mode pass1.
main_after_pass1(run_mode, raised) ==
    IF raised THEN "except"
    ELSE IF run_mode \in {"pass2", "all"} THEN "pass2"
    ELSE "return"

\* main up to the first phase: the DSN is resolved, and pass 1 is entered in
\* the modes pass1 and all.
MainStart ==
    /\ pc = "main"
    /\ \E dsn_resolved \in BOOLEAN :
          IF ~dsn_resolved
          THEN /\ pc' = "exit"
               /\ exit_code' = Some(1)
               /\ trace' = Append(trace, "resolve_postgres_dsn raised")
          ELSE /\ pc' = IF mode \in {"pass1", "all"} THEN "run_pass1" ELSE "run_pass2"
               /\ UNCHANGED <<exit_code, trace>>
    /\ pass2_contexts' = IF mode \in {"pass1", "all"} THEN None ELSE pass2_contexts
    /\ UNCHANGED <<mode, runs, dump_exists, pass1Vars, rerankVars, keyVars, lookupVars>>
    /\ UNCHANGED <<sample_entity_cache, context_batch_size, pass2_pc, pass2_batches,
                   submitted, in_flight, futures, updated_total, pass2_contexts_before>>
    /\ UNCHANGED pipelineVars
    /\ UNCHANGED categoryVars
    /\ UNCHANGED nerVars
    /\ UNCHANGED quickwitVars
    /\ UNCHANGED resolverVars

\* run_pass1 up to its loop: the dump has to exist and the schema is ensured;
\* main does not pass build_search_vector, which is then True.
Pass1Start ==
    /\ pc = "run_pass1"
    /\ \E schema_ensured \in BOOLEAN :
          /\ pass1_failed' = (~dump_exists \/ ~schema_ensured)
          /\ trace' = Append(trace, "run_pass1")
    /\ pc' = "pass1"
    /\ pass1_build_search_vector' = TRUE
    /\ emitted' = 0
    /\ pending_entities' = <<>>
    /\ pass1_done' = FALSE
    /\ UNCHANGED <<dump, batch_size, pass1_limit, languages, workers, entities,
                   context_inputs, last_write>>
    /\ UNCHANGED <<mode, exit_code, runs, dump_exists, pass2Vars, rerankVars, keyVars,
                   lookupVars>>
    /\ UNCHANGED pipelineVars
    /\ UNCHANGED categoryVars
    /\ UNCHANGED nerVars
    /\ UNCHANGED quickwitVars
    /\ UNCHANGED resolverVars

\* main once run_pass1 has returned or raised.
MainAfterPass1 ==
    /\ pc = "pass1"
    /\ pass1_done \/ pass1_failed
    /\ \E next \in {main_after_pass1(mode, pass1_failed)} :
          /\ pc' = IF next = "pass2" THEN "run_pass2" ELSE "exit"
          /\ exit_code' = IF next = "except" THEN Some(1)
                          ELSE IF next = "return" THEN Some(0)
                          ELSE exit_code
    /\ trace' = Append(trace, IF pass1_failed THEN "run_pass1 raised"
                              ELSE "run_pass1 returned")
    /\ UNCHANGED <<mode, runs, dump_exists, pass1Vars, pass2Vars, rerankVars, keyVars,
                   lookupVars>>
    /\ UNCHANGED pipelineVars
    /\ UNCHANGED categoryVars
    /\ UNCHANGED nerVars
    /\ UNCHANGED quickwitVars
    /\ UNCHANGED resolverVars

\* The context strings of the store, by qid.
Contexts(entity_table) ==
    [qid \in {r.qid : r \in entity_table} |->
        (CHOOSE r \in entity_table : r.qid = qid).context_string]

\* run_pass2 up to its loop: the schema is ensured, the entities are counted
\* and the cursor of iter_entity_ids is opened.
Pass2Start ==
    /\ pc = "run_pass2"
    /\ pc' = "pass2"
    /\ trace' = Append(trace, "run_pass2")
    /\ \E schema_ensured \in BOOLEAN :
          IF schema_ensured
          THEN /\ pass2_pc' = "iterate"
               /\ pass2_batches' = iter_entity_ids(entities, context_batch_size)
          ELSE /\ pass2_pc' = "raised"
               /\ pass2_batches' = <<>>
    /\ submitted' = 0
    /\ in_flight' = {}
    /\ futures' = <<>>
    /\ updated_total' = 0
    /\ UNCHANGED <<sample_entity_cache, context_batch_size, pass2_contexts,
                   pass2_contexts_before>>
    /\ UNCHANGED <<mode, exit_code, runs, dump_exists, pass1Vars, rerankVars, keyVars,
                   lookupVars>>
    /\ UNCHANGED pipelineVars
    /\ UNCHANGED categoryVars
    /\ UNCHANGED nerVars
    /\ UNCHANGED quickwitVars
    /\ UNCHANGED resolverVars

Finished == {"done", "raised"}

\* The futures of a set that are done, with a result or with an exception.
DoneAmong(tasks, in_flight_set) == {i \in in_flight_set : tasks[i].state \in Finished}

RECURSIVE SumResults(_, _)
SumResults(tasks, done) ==
    IF done = {} THEN 0
    ELSE LET i == CHOOSE j \in done : TRUE
         IN  tasks[i].result + SumResults(tasks, done \ {i})

\* A drain that drops the exception of a failed future.
_drain_ready_swallowing(tasks, in_flight_set, total) ==
    LET done == DoneAmong(tasks, in_flight_set)
    IN  [in_flight |-> in_flight_set \ done,
         updated_total |-> total + SumResults(tasks, done),
         raised |-> FALSE]

\* _drain_ready: the futures that are done leave in_flight and their results
\* are added up; the exception of a failed future is raised.
_drain_ready(tasks, in_flight_set, total) ==
    LET done == DoneAmong(tasks, in_flight_set)
    IN  [in_flight |-> in_flight_set \ done,
         updated_total |-> total + SumResults(tasks, done),
         raised |-> \E i \in done : tasks[i].state = "raised"]

\* One turn of the loop of run_pass2: the next batch is submitted; at the cap
\* the producer goes on to wait, below it the futures that are done are
\* drained without waiting.
Pass2Submit ==
    /\ pc = "pass2" /\ pass2_pc = "iterate"
    /\ submitted < Len(pass2_batches)
    /\ submitted' = submitted + 1
    /\ futures' = Append(futures, [state |-> "queued",
                                   qids |-> pass2_batches[submitted + 1],
                                   batch |-> <<>>, label_map |-> <<>>, result |-> 0])
    /\ IF must_wait(Cardinality(in_flight \cup {submitted + 1}), workers)
       THEN /\ in_flight' = in_flight \cup {submitted + 1}
            /\ pass2_pc' = "waiting"
            /\ UNCHANGED updated_total
       ELSE \E drained \in {_drain_ready(futures', in_flight \cup {submitted + 1},
                                         updated_total)} :
                /\ in_flight' = drained.in_flight
                /\ updated_total' = drained.updated_total
                /\ pass2_pc' = IF drained.raised THEN "failing" ELSE "iterate"
    /\ UNCHANGED <<sample_entity_cache, context_batch_size, pass2_batches, pass2_contexts,
                   pass2_contexts_before>>
    /\ UNCHANGED <<ingestVars, pass1Vars, rerankVars, keyVars, lookupVars>>
    /\ UNCHANGED pipelineVars
    /\ UNCHANGED categoryVars
    /\ UNCHANGED nerVars
    /\ UNCHANGED quickwitVars
    /\ UNCHANGED resolverVars

\* _drain_ready(block=True): wait(in_flight, FIRST_COMPLETED) returns once a
\* future is done; at the cap the loop then goes on, after the loop the
\* waiting goes on until in_flight is empty.
Pass2Wait ==
    /\ pc = "pass2" /\ pass2_pc \in {"waiting", "draining"}
    /\ DoneAmong(futures, in_flight) # {}
    /\ \E drained \in {_drain_ready(futures, in_flight, updated_total)} :
          /\ in_flight' = drained.in_flight
          /\ updated_total' = drained.updated_total
          /\ pass2_pc' = IF drained.raised THEN "failing"
                         ELSE IF pass2_pc = "waiting" THEN "iterate"
                         ELSE "draining"
    /\ UNCHANGED <<sample_entity_cache, context_batch_size, pass2_batches, submitted,
                   futures, pass2_contexts, pass2_contexts_before>>
    /\ UNCHANGED <<ingestVars, pass1Vars, rerankVars, keyVars, lookupVars>>
    /\ UNCHANGED pipelineVars
    /\ UNCHANGED categoryVars
    /\ UNCHANGED nerVars
    /\ UNCHANGED quickwitVars
    /\ UNCHANGED resolverVars

\* iter_entity_ids is exhausted: the loop ends.
Pass2LoopEnd ==
    /\ pc = "pass2" /\ pass2_pc = "iterate"
    /\ submitted = Len(pass2_batches)
    /\ pass2_pc' = "draining"
    /\ UNCHANGED <<sample_entity_cache, context_batch_size, pass2_batches, submitted,
                   in_flight, futures, updated_total, pass2_contexts,
                   pass2_contexts_before>>
    /\ UNCHANGED <<ingestVars, pass1Vars, rerankVars, keyVars, lookupVars>>
    /\ UNCHANGED pipelineVars
    /\ UNCHANGED categoryVars
    /\ UNCHANGED nerVars
    /\ UNCHANGED quickwitVars
    /\ UNCHANGED resolverVars

\* A return that does not wait for the batches in flight.
Pass2Return_without_draining ==
    /\ pc = "pass2" /\ pass2_pc = "draining"
    /\ pass2_pc' = "returned"
    /\ pass2_contexts' = Some(Contexts(entities))
    /\ pass2_contexts_before' = pass2_contexts
    /\ UNCHANGED <<sample_entity_cache, context_batch_size, pass2_batches, submitted,
                   in_flight, futures, updated_total>>
    /\ UNCHANGED <<ingestVars, pass1Vars, rerankVars, keyVars, lookupVars>>
    /\ UNCHANGED pipelineVars
    /\ UNCHANGED categoryVars
    /\ UNCHANGED nerVars
    /\ UNCHANGED quickwitVars
    /\ UNCHANGED resolverVars

\* Nothing is in flight after the loop: run_pass2 returns 0.
Pass2Return ==
    /\ pc = "pass2" /\ pass2_pc = "draining"
    /\ in_flight = {}
    /\ pass2_pc' = "returned"
    /\ pass2_contexts' = Some(Contexts(entities))
    /\ pass2_contexts_before' = pass2_contexts
    /\ UNCHANGED <<sample_entity_cache, context_batch_size, pass2_batches, submitted,
                   in_flight, futures, updated_total>>
    /\ UNCHANGED <<ingestVars, pass1Vars, rerankVars, keyVars, lookupVars>>
    /\ UNCHANGED pipelineVars
    /\ UNCHANGED categoryVars
    /\ UNCHANGED nerVars
    /\ UNCHANGED quickwitVars
    /\ UNCHANGED resolverVars

\* An exception leaves the with block of the executor, which waits for every
\* task that was submitted, and then leaves run_pass2.
Pass2Raise ==
    /\ pc = "pass2" /\ pass2_pc = "failing"
    /\ \A i \in DOMAIN futures : futures[i].state \in Finished
    /\ pass2_pc' = "raised"
    /\ UNCHANGED <<sample_entity_cache, context_batch_size, pass2_batches, submitted,
                   in_flight, futures, updated_total, pass2_contexts,
                   pass2_contexts_before>>
    /\ UNCHANGED <<ingestVars, pass1Vars, rerankVars, keyVars, lookupVars>>
    /\ UNCHANGED pipelineVars
    /\ UNCHANGED categoryVars
    /\ UNCHANGED nerVars
    /\ UNCHANGED quickwitVars
    /\ UNCHANGED resolverVars

\* The tasks a worker thread of the pool is running.
Running == {i \in DOMAIN futures : futures[i].state \in {"resolve", "update"}}

\* A worker thread takes a task: load_context_inputs reads the relation
\* objects of the batch, or fails.
TaskLoad ==
    /\ pc = "pass2"
    /\ \E i \in DOMAIN futures :
          /\ futures[i].state = "queued"
          /\ Cardinality(Running) < workers
          /\ \E loaded \in BOOLEAN :
                futures' = [futures EXCEPT ![i] =
                    IF loaded
                    THEN [@ EXCEPT !.state = "resolve",
                                   !.batch = load_context_inputs(context_inputs, futures[i].qids)]
                    ELSE [@ EXCEPT !.state = "raised"]]
    /\ UNCHANGED <<sample_entity_cache, context_batch_size, pass2_pc, pass2_batches,
                   submitted, in_flight, updated_total, pass2_contexts,
                   pass2_contexts_before>>
    /\ UNCHANGED <<ingestVars, pass1Vars, rerankVars, keyVars, lookupVars>>
    /\ UNCHANGED pipelineVars
    /\ UNCHANGED categoryVars
    /\ UNCHANGED nerVars
    /\ UNCHANGED quickwitVars
    /\ UNCHANGED resolverVars

\* resolve_labels reads the labels of the relation objects, or fails.
TaskResolve ==
    /\ pc = "pass2"
    /\ \E i \in DOMAIN futures :
          /\ futures[i].state = "resolve"
          /\ \E resolved \in BOOLEAN :
                futures' = [futures EXCEPT ![i] =
                    IF resolved
                    THEN [@ EXCEPT !.state = "update",
                                   !.label_map = resolve_labels(entities, sample_entity_cache,
                                                                related_ids_of(futures[i].batch))]
                    ELSE [@ EXCEPT !.state = "raised", !.batch = <<>>]]
    /\ UNCHANGED <<sample_entity_cache, context_batch_size, pass2_pc, pass2_batches,
                   submitted, in_flight, updated_total, pass2_contexts,
                   pass2_contexts_before>>
    /\ UNCHANGED <<ingestVars, pass1Vars, rerankVars, keyVars, lookupVars>>
    /\ UNCHANGED pipelineVars
    /\ UNCHANGED categoryVars
    /\ UNCHANGED nerVars
    /\ UNCHANGED quickwitVars
    /\ UNCHANGED resolverVars

\* update_context_strings writes the context strings of the batch in one
\* transaction, which runs to its end or fails at some step.
TaskUpdate ==
    /\ pc = "pass2"
    /\ \E i \in DOMAIN futures :
          /\ futures[i].state = "update"
          /\ \E updates \in {context_updates(futures[i].batch, futures[i].label_map)} :
                \E fail_at \in FailPoints(Len(updates)) :
                    \E written \in {update_context_strings(Store, updates, fail_at)} :
                        /\ entities' = written.store.entities
                        /\ last_write' = IF updates = <<>> THEN last_write
                                         ELSE Some([call |-> "update_context_strings",
                                                    rows |-> updates,
                                                    build_search_vector |-> TRUE,
                                                    raised |-> written.raised])
                        /\ futures' = [futures EXCEPT ![i] =
                               [state |-> IF written.raised THEN "raised" ELSE "done",
                                qids |-> @.qids, batch |-> <<>>, label_map |-> <<>>,
                                result |-> IF written.raised THEN 0 ELSE Len(updates)]]
    /\ UNCHANGED <<sample_entity_cache, context_batch_size, pass2_pc, pass2_batches,
                   submitted, in_flight, updated_total, pass2_contexts,
                   pass2_contexts_before>>
    /\ UNCHANGED <<dump, batch_size, pass1_limit, emitted, pending_entities, pass1_done,
                   languages, workers, pass1_build_search_vector, context_inputs,
                   pass1_failed>>
    /\ UNCHANGED <<ingestVars, rerankVars, keyVars, lookupVars>>
    /\ UNCHANGED pipelineVars
    /\ UNCHANGED categoryVars
    /\ UNCHANGED nerVars
    /\ UNCHANGED quickwitVars
    /\ UNCHANGED resolverVars

\* main once run_pass2 has returned or raised.
MainAfterPass2 ==
    /\ pc = "pass2"
    /\ pass2_pc \in {"returned", "raised"}
    /\ pc' = "exit"
    /\ exit_code' = IF pass2_pc = "raised" THEN Some(1) ELSE Some(0)
    /\ trace' = Append(trace, IF pass2_pc = "raised" THEN "run_pass2 raised"
                              ELSE "run_pass2 returned")
    /\ UNCHANGED <<mode, runs, dump_exists, pass1Vars, pass2Vars, rerankVars, keyVars,
                   lookupVars>>
    /\ UNCHANGED pipelineVars
    /\ UNCHANGED categoryVars
    /\ UNCHANGED nerVars
    /\ UNCHANGED quickwitVars
    /\ UNCHANGED resolverVars

\* The operator runs the driver again, in any mode and with any number of
\* workers and context batch size, on the store as the run before left it.
Rerun ==
    /\ pc = "exit"
    /\ runs < MaxRuns
    /\ runs' = runs + 1
    /\ mode' \in Modes
    /\ workers' \in WorkerCounts
    /\ context_batch_size' \in 1..MaxBatch
    /\ pc' = "main"
    /\ exit_code' = None
    /\ trace' = <<>>
    /\ emitted' = 0 /\ pending_entities' = <<>>
    /\ pass1_done' = FALSE /\ pass1_failed' = FALSE
    /\ pass2_pc' = "idle" /\ pass2_batches' = <<>> /\ submitted' = 0
    /\ in_flight' = {} /\ futures' = <<>> /\ updated_total' = 0
    /\ UNCHANGED <<dump, batch_size, pass1_limit, languages,
                   pass1_build_search_vector, entities, context_inputs, last_write,
                   dump_exists, sample_entity_cache, pass2_contexts,
                   pass2_contexts_before, rerankVars, keyVars, lookupVars>>
    /\ UNCHANGED pipelineVars
    /\ UNCHANGED categoryVars
    /\ UNCHANGED nerVars
    /\ UNCHANGED quickwitVars
    /\ UNCHANGED resolverVars

IngestNext ==
    \/ MainStart
    \/ Pass1Start
    \/ Pass1Read
    \/ Pass1Finish
    \/ MainAfterPass1
    \/ Pass2Start
    \/ Pass2Submit
    \/ Pass2Wait
    \/ Pass2LoopEnd
    \/ Pass2Return
    \/ Pass2Raise
    \/ TaskLoad
    \/ TaskResolve
    \/ TaskUpdate
    \/ MainAfterPass2
    \/ Rerun

SpecIngest == IngestInit /\ [][IngestNext]_vars

-----------------------------------------------------------------------------
(* Claims about pass 1.                                                    *)

Digits == {"0", "1", "9"}

\* Q or P followed by a positive integer.
WellFormedId(qid) ==
    /\ Len(qid) >= 2
    /\ qid[1] \in {"Q", "P"}
    /\ \A i \in 2..Len(qid) : qid[i] \in Digits
    /\ qid[2] # "0"

\* The entity carries label text in some language.
HasLabelText(entity) ==
    \E l \in DOMAIN entity.labels : \E i \in DOMAIN entity.labels[l] :
        ~IsSpace(entity.labels[l][i])

\* The positions of the dump that hold the given id.
Occurrences(qid) == {i \in DOMAIN dump : dump[i].id = qid}

LabelledOccurrences(qid) == {i \in Occurrences(qid) : HasLabelText(dump[i])}

Latest(positions) == CHOOSE i \in positions : \A j \in positions : j <= i

OneRowPerQid == \A r1, r2 \in entities : r1.qid = r2.qid => r1 = r2

\* C9 (as stated): after pass 1 over any dump every row of the entity store
\* has a qid of the shape Q<positive integer> or P<positive integer>; a
\* record whose id has any other shape is skipped and never stored.
C9_OnlyWellFormedIdsStored ==
    pass1_done => \A r \in entities : WellFormedId(r.qid)

NoDuplicates(s) == \A i, j \in DOMAIN s : i # j => s[i] # s[j]

\* C11 (as stated): for any record written by pass 1 the stored aliases
\* contain no element twice and do not contain the primary label of the row.
C11_AliasesDistinctWithoutLabel ==
    \A r \in entities : NoDuplicates(r.aliases) /\ r.label \notin Range(r.aliases)

\* No leading or trailing whitespace and no run of two whitespace characters.
WhitespaceNormalized(text) ==
    /\ text # <<>> => ~IsSpace(text[1]) /\ ~IsSpace(text[Len(text)])
    /\ \A i \in 1..(Len(text) - 1) : ~(IsSpace(text[i]) /\ IsSpace(text[i + 1]))

\* C12: every row written by pass 1 has a label that is not empty and is its
\* own whitespace-normalised form (runs of whitespace collapsed, trimmed);
\* an entity for which no such label can be chosen is not written with an
\* empty label.
C12_LabelNonEmptyNormalized ==
    \A r \in entities : r.label # <<>> /\ WhitespaceNormalized(r.label)

\* A finished pass that stored a row for an entity whose English label comes
\* with leading whitespace and a run of two spaces in the dump.
C12_Witness ==
    /\ pass1_done
    /\ \E i \in DOMAIN dump :
          /\ "en" \in DOMAIN dump[i].labels
          /\ ~WhitespaceNormalized(dump[i].labels["en"])
          /\ Len(tokenize(dump[i].labels["en"])) = 2
          /\ \E r \in entities :
                r.qid = dump[i].id /\ r.label = <<"a", " ", "b">>

-----------------------------------------------------------------------------
(* The pipeline driver of run_pipeline.py: the labels database, the        *)
(* bag-of-words documents and the Quickwit index, each skippable by flag.  *)

Phases == <<"labels", "bow", "quickwit">>

\* How run of build_labels_db.py can end: it returns 0, or ensure_existing_file,
\* the argument checks or sqlite3 raise.
run_labels_db_outcomes == {"returned", "FileNotFoundError", "ValueError", "sqlite3.Error"}

\* How run of build_bow_docs.py can end.
run_bow_docs_outcomes == {"returned", "FileNotFoundError", "ValueError", "sqlite3.Error"}

\* How the Quickwit phase can end, as main expects it.
run_quickwit_index_outcomes == {"returned", "FileNotFoundError", "QuickwitClientError"}

PhaseOutcomes(phase) ==
    CASE phase = "labels" -> run_labels_db_outcomes
      [] phase = "bow" -> run_bow_docs_outcomes
      [] phase = "quickwit" -> run_quickwit_index_outcomes

\* except (FileNotFoundError, ValueError, QuickwitClientError)
main_handles(exception) ==
    exception \in {"FileNotFoundError", "ValueError", "QuickwitClientError"}

PipelineInit ==
    /\ skip_phases \in SUBSET Range(Phases)
    /\ languages_arg \in {"en", "en,de", ""}
    /\ pipeline_pc = 0
    /\ phases_run = <<>>
    /\ pipeline_exit = None
    /\ pipeline_uncaught = None
    /\ RerankIdle
    /\ KeyIdle
    /\ LookupIdle
    /\ Pass1Idle
    /\ IngestIdle
    /\ Pass2Idle
    /\ CategoryIdle
    /\ NerIdle
    /\ QuickwitIdle
    /\ ResolverIdle

PipelineDone == Len(Phases) + 1

\* main up to the first phase: parse_language_allowlist raises ValueError for
\* an allowlist without a language, which main handles.
PipelineStart ==
    /\ pipeline_pc = 0
    /\ IF languages_arg = ""
       THEN /\ pipeline_pc' = PipelineDone
            /\ pipeline_exit' = Some(1)
       ELSE /\ pipeline_pc' = 1
            /\ UNCHANGED pipeline_exit
    /\ UNCHANGED <<skip_phases, languages_arg, phases_run, pipeline_uncaught>>
    /\ UNCHANGED <<rerankVars, keyVars, lookupVars, pass1Vars, ingestVars, pass2Vars>>
    /\ UNCHANGED categoryVars
    /\ UNCHANGED nerVars
    /\ UNCHANGED quickwitVars
    /\ UNCHANGED resolverVars

\* A phase that its flag skips.
PipelineSkip ==
    /\ pipeline_pc \in DOMAIN Phases
    /\ Phases[pipeline_pc] \in skip_phases
    /\ pipeline_pc' = pipeline_pc + 1
    /\ UNCHANGED <<skip_phases, languages_arg, phases_run, pipeline_exit,
                   pipeline_uncaught>>
    /\ UNCHANGED <<rerankVars, keyVars, lookupVars, pass1Vars, ingestVars, pass2Vars>>
    /\ UNCHANGED categoryVars
    /\ UNCHANGED nerVars
    /\ UNCHANGED quickwitVars
    /\ UNCHANGED resolverVars

\* A phase that runs: it returns 0 and main goes on, or it raises, and main
\* returns 1 for the exceptions it handles and lets the others through.
PipelineRun ==
    /\ pipeline_pc \in DOMAIN Phases
    /\ Phases[pipeline_pc] \notin skip_phases
    /\ \E outcome \in PhaseOutcomes(Phases[pipeline_pc]) :
          /\ phases_run' = Append(phases_run, [phase |-> Phases[pipeline_pc],
                                               outcome |-> outcome])
          /\ IF outcome = "returned"
             THEN /\ pipeline_pc' = pipeline_pc + 1
                  /\ UNCHANGED <<pipeline_exit, pipeline_uncaught>>
             ELSE IF main_handles(outcome)
             THEN /\ pipeline_pc' = PipelineDone
                  /\ pipeline_exit' = Some(1)
                  /\ UNCHANGED pipeline_uncaught
             ELSE /\ pipeline_pc' = PipelineDone
                  /\ pipeline_uncaught' = Some(outcome)
                  /\ UNCHANGED pipeline_exit
    /\ UNCHANGED <<skip_phases, languages_arg>>
    /\ UNCHANGED <<rerankVars, keyVars, lookupVars, pass1Vars, ingestVars, pass2Vars>>
    /\ UNCHANGED categoryVars
    /\ UNCHANGED nerVars
    /\ UNCHANGED quickwitVars
    /\ UNCHANGED resolverVars

\* After the last phase main returns 0.
PipelineReturn ==
    /\ pipeline_pc = Len(Phases) + 1
    /\ pipeline_exit = None /\ pipeline_uncaught = None
    /\ pipeline_exit' = Some(0)
    /\ UNCHANGED <<skip_phases, languages_arg, pipeline_pc, phases_run, pipeline_uncaught>>
    /\ UNCHANGED <<rerankVars, keyVars, lookupVars, pass1Vars, ingestVars, pass2Vars>>
    /\ UNCHANGED categoryVars
    /\ UNCHANGED nerVars
    /\ UNCHANGED quickwitVars
    /\ UNCHANGED resolverVars

PipelineNext == PipelineStart \/ PipelineSkip \/ PipelineRun \/ PipelineReturn

SpecPipeline == PipelineInit /\ [][PipelineNext]_vars


-----------------------------------------------------------------------------
(* The claims of a Wikidata entity: extract_claim_object_ids of            *)
(* build_bow_docs.py and infer_item_category of build_postgres_entities.py.*)
(*                                                                         *)
(* The claims of an entity are <<>> when the entity has none, else         *)
(* <<properties>>, a sequence of [property, statements] in the order of    *)
(* the JSON object.  A statement is [snaktype, datavalue]; a datavalue is  *)
(* <<>> or <<value>>, and a value is [mapping, id, numeric_id,             *)
(* entity_type], with id and numeric_id <<>> when the key is missing.      *)

RECURSIVE FormatInt(_)
\* str(n) for n >= 0, as in an f-string.
FormatInt(n) ==
    LET digit == <<"0", "1", "2", "3", "4", "5", "6", "7", "8", "9">>[(n % 10) + 1]
    IN  IF n < 10 THEN <<digit>> ELSE Append(FormatInt(n \div 10), digit)

\* An extraction that takes the id as it is, supported or not.
_extract_entity_id_any_id(raw_value) ==
    IF ~raw_value.mapping THEN None
    ELSE IF raw_value.id # None
    THEN Some(Strip(raw_value.id[1]))
    ELSE IF raw_value.numeric_id = None \/ raw_value.numeric_id[1] <= 0 THEN None
    ELSE IF raw_value.entity_type = "item"
    THEN Some(<<"Q">> \o FormatInt(raw_value.numeric_id[1]))
    ELSE IF raw_value.entity_type = "property"
    THEN Some(<<"P">> \o FormatInt(raw_value.numeric_id[1]))
    ELSE None

\* _extract_entity_id_from_datavalue_value: the stripped id when it is
\* supported, else Q or P with the positive numeric-id of an item or a
\* property, else None.
_extract_entity_id_from_datavalue_value(raw_value) ==
    IF ~raw_value.mapping THEN None
    ELSE IF raw_value.id # None /\ is_supported_entity_id(Strip(raw_value.id[1]))
    THEN Some(Strip(raw_value.id[1]))
    ELSE IF raw_value.numeric_id = None \/ raw_value.numeric_id[1] <= 0 THEN None
    ELSE IF raw_value.entity_type = "item"
    THEN Some(<<"Q">> \o FormatInt(raw_value.numeric_id[1]))
    ELSE IF raw_value.entity_type = "property"
    THEN Some(<<"P">> \o FormatInt(raw_value.numeric_id[1]))
    ELSE None

\* The object id a statement contributes: that of the value of a mainsnak
\* whose snaktype is "value", if it has one.
statement_object_id(statement) ==
    IF statement.snaktype # "value" \/ statement.datavalue = None THEN None
    ELSE _extract_entity_id_from_datavalue_value(statement.datavalue[1])

\* The object ids of the statements of claims.values(), in encounter order.
RECURSIVE StatementObjectIds(_)
StatementObjectIds(properties) ==
    IF properties = <<>> THEN <<>>
    ELSE Concat([i \in DOMAIN Head(properties).statements |->
                    statement_object_id(Head(properties).statements[i])])
         \o StatementObjectIds(Tail(properties))

\* The entity as extract_claim_object_ids walks it.
ClaimsWalk(claims) ==
    [claims |-> IF claims = None THEN <<>> ELSE StatementObjectIds(claims[1])]

\* claims.get(property_id), in a wrapper entity.
SelectProperty(claims, property_id) ==
    Some(SelectSeq(claims[1], LAMBDA entry : entry.property = property_id))

\* _claim_object_ids_for_property
_claim_object_ids_for_property(entity, property_id, limit) ==
    IF entity.claims = None THEN <<>>
    ELSE extract_claim_object_ids(ClaimsWalk(SelectProperty(entity.claims, property_id)),
                                  limit)

Q4167410 == <<"Q", "4", "1", "6", "7", "4", "1", "0">>

Q22808320 == <<"Q", "2", "2", "8", "0", "8", "3", "2", "0">>

Q16889133 == <<"Q", "1", "6", "8", "8", "9", "1", "3", "3">>

Q24017414 == <<"Q", "2", "4", "0", "1", "7", "4", "1", "4">>

DISAMBIGUATION_INSTANCE_OF_QIDS == {Q4167410, Q22808320}

CLASSLIKE_INSTANCE_OF_QIDS == {Q16889133, Q24017414}

\* limit=16 of the P31 lookup of infer_item_category
P31_LIMIT == 16

\* An item without claims is OTHER.
infer_item_category_other_without_claims(entity) ==
    LET p31_ids == Range(_claim_object_ids_for_property(entity, <<"P", "3", "1">>, P31_LIMIT))
    IN  IF entity.id = None \/ entity.id[1] = <<>> THEN "OTHER"
        ELSE IF Head(entity.id[1]) = "P" \/ entity.type = "property" THEN "PREDICATE"
        ELSE IF entity.type = "lexeme" THEN "LEXEME"
        ELSE IF Head(entity.id[1]) # "Q" THEN "OTHER"
        ELSE IF entity.claims = None \/ entity.claims[1] = <<>> THEN "OTHER"
        ELSE IF p31_ids \cap DISAMBIGUATION_INSTANCE_OF_QIDS # {} THEN "DISAMBIGUATION"
        ELSE IF \E entry \in Range(entity.claims[1]) :
                    entry.property = <<"P", "2", "7", "9">> /\ entry.statements # <<>>
        THEN "TYPE"
        ELSE IF p31_ids \cap CLASSLIKE_INSTANCE_OF_QIDS # {} THEN "TYPE"
        ELSE "ENTITY"

\* infer_item_category (the entity types form, sense and mediainfo, which
\* are handled as lexeme is, are not among the entities of the model)
infer_item_category(entity) ==
    LET p31_ids == Range(_claim_object_ids_for_property(entity, <<"P", "3", "1">>, P31_LIMIT))
    IN  IF entity.id = None \/ entity.id[1] = <<>> THEN "OTHER"
        ELSE IF Head(entity.id[1]) = "P" \/ entity.type = "property" THEN "PREDICATE"
        ELSE IF entity.type = "lexeme" THEN "LEXEME"
        ELSE IF Head(entity.id[1]) # "Q" THEN "OTHER"
        ELSE IF entity.claims = None THEN "ENTITY"
        ELSE IF p31_ids \cap DISAMBIGUATION_INSTANCE_OF_QIDS # {} THEN "DISAMBIGUATION"
        ELSE IF \E entry \in Range(entity.claims[1]) :
                    entry.property = <<"P", "2", "7", "9">> /\ entry.statements # <<>>
        THEN "TYPE"
        ELSE IF p31_ids \cap CLASSLIKE_INSTANCE_OF_QIDS # {} THEN "TYPE"
        ELSE "ENTITY"

P31 == <<"P", "3", "1">>

P279 == <<"P", "2", "7", "9">>

ItemValue(numeric_id) ==
    [mapping |-> TRUE, id |-> None, numeric_id |-> Some(numeric_id), entity_type |-> "item"]

IdValue(id) ==
    [mapping |-> TRUE, id |-> Some(id), numeric_id |-> None, entity_type |-> "item"]

Statement(value) == [snaktype |-> "value", datavalue |-> Some(value)]

\* Statements about the items Q1 .. Qn.
Fillers(n) == [i \in 1..n |-> Statement(ItemValue(i))]

\* The P31 statements of the entities to classify: a disambiguation page after
\* no, one, fifteen and sixteen other objects, and statements that are not
\* about a disambiguation page.
P31Statements ==
    {Fillers(n) \o <<Statement(ItemValue(4167410))>> : n \in {0, 1, P31_LIMIT - 1, P31_LIMIT}}
    \cup {<<Statement(IdValue(Q22808320))>>,
          <<Statement(IdValue(Q16889133)), Statement(IdValue(Q4167410))>>,
          <<Statement(IdValue(Q16889133))>>,
          <<Statement(ItemValue(1))>>,
          <<[snaktype |-> "novalue", datavalue |-> Some(IdValue(Q4167410))]>>}

ClaimsToClassify ==
    {None, Some(<<>>)}
    \cup {Some(other \o p31 \o p279) :
            other \in {<<>>, <<[property |-> <<"P", "1">>, statements |-> Fillers(1)]>>},
            p31 \in {<<>>} \cup {<<[property |-> P31, statements |-> s]>> : s \in P31Statements},
            p279 \in {<<>>, <<[property |-> P279, statements |-> Fillers(1)]>>}}

EntitiesToClassify ==
    [id : {None, Some(<<>>), Some(<<"Q", "9">>), Some(<<"P", "1">>), Some(<<"L", "1">>)},
     type : {"item", "property", "lexeme"},
     claims : ClaimsToClassify]

\* The statements of the entities whose claims are walked: values with an id,
\* with a numeric-id, with both, with neither, and snaks without a value.
StatementPool ==
    {Statement(ItemValue(1)),
     Statement(ItemValue(2)),
     Statement(IdValue(<<" ", "Q", "1">>)),
     Statement([mapping |-> TRUE, id |-> None, numeric_id |-> Some(1),
                entity_type |-> "property"]),
     Statement(IdValue(<<"L", "1">>)),
     Statement([mapping |-> TRUE, id |-> Some(<<"L", "1">>), numeric_id |-> Some(3),
                entity_type |-> "item"]),
     Statement([mapping |-> TRUE, id |-> None, numeric_id |-> Some(1),
                entity_type |-> "lexeme"]),
     Statement([mapping |-> TRUE, id |-> None, numeric_id |-> Some(0),
                entity_type |-> "item"]),
     Statement([mapping |-> FALSE, id |-> None, numeric_id |-> None,
                entity_type |-> "string"]),
     [snaktype |-> "somevalue", datavalue |-> Some(ItemValue(9))],
     [snaktype |-> "value", datavalue |-> None]}

MaxStatements == 2

StatementLists(max) == UNION {[1..n -> StatementPool] : n \in 0..max}

EntitiesToWalk ==
    {[id |-> Some(<<"Q", "9">>), type |-> "item",
      claims |-> Some(<<[property |-> <<"P", "1">>, statements |-> first],
                        [property |-> P31, statements |-> second]>>)] :
        first \in StatementLists(MaxStatements), second \in StatementLists(1)}

\* limit as the callers give it: negative, zero, small, and the default.
Limits == {-1, 0, 1, 2, DEFAULT_MAX_CONTEXT_OBJECT_IDS}

CategoryInit ==
    /\ wd_entity \in EntitiesToClassify \cup EntitiesToWalk
    /\ wd_limit \in Limits
    /\ wd_object_ids = None
    /\ wd_category = None
    /\ RerankIdle
    /\ KeyIdle
    /\ LookupIdle
    /\ Pass1Idle
    /\ IngestIdle
    /\ Pass2Idle
    /\ PipelineIdle
    /\ NerIdle
    /\ QuickwitIdle
    /\ ResolverIdle

\* extract_claim_object_ids(entity, limit=limit)
ExtractObjectIds ==
    /\ wd_object_ids = None
    /\ wd_object_ids' = Some(extract_claim_object_ids(ClaimsWalk(wd_entity.claims), wd_limit))
    /\ UNCHANGED <<wd_entity, wd_limit, wd_category>>
    /\ UNCHANGED <<rerankVars, keyVars, lookupVars, pass1Vars, ingestVars, pass2Vars,
                   pipelineVars>>
    /\ UNCHANGED nerVars
    /\ UNCHANGED quickwitVars
    /\ UNCHANGED resolverVars

\* infer_item_category(entity)
Categorize ==
    /\ wd_category = None
    /\ wd_category' = Some(infer_item_category(wd_entity))
    /\ UNCHANGED <<wd_entity, wd_limit, wd_object_ids>>
    /\ UNCHANGED <<rerankVars, keyVars, lookupVars, pass1Vars, ingestVars, pass2Vars,
                   pipelineVars>>
    /\ UNCHANGED nerVars
    /\ UNCHANGED quickwitVars
    /\ UNCHANGED resolverVars

CategoryNext == ExtractObjectIds \/ Categorize

SpecCategory == CategoryInit /\ [][CategoryNext]_vars

-----------------------------------------------------------------------------
(* The lexical typer of ner_typing.py.                                     *)
(*                                                                         *)
(* labels and descriptions are functions from languages to texts, aliases  *)
(* a function from languages to sequences of texts; a type name is a text. *)

\* FINE_TYPE_RULES, in the order of the table.
FINE_TYPE_RULES ==
    <<
      [coarse |-> <<"P", "E", "R", "S", "O", "N">>,
       fine |-> <<"H", "U", "M", "A", "N">>,
       token_clues |->
         {<<"a", "c", "t", "o", "r">>, <<"a", "c", "t", "r", "e", "s", "s">>,
          <<"a", "r", "t", "i", "s", "t">>, <<"a", "t", "h", "l", "e", "t", "e">>,
          <<"a", "u", "t", "h", "o", "r">>, <<"c", "o", "m", "p", "o", "s", "e", "r">>,
          <<"d", "i", "r", "e", "c", "t", "o", "r">>, <<"d", "o", "c", "t", "o", "r">>,
          <<"e", "n", "g", "i", "n", "e", "e", "r">>,
          <<"f", "o", "o", "t", "b", "a", "l", "l", "e", "r">>,
          <<"f", "o", "u", "n", "d", "e", "r">>,
          <<"j", "o", "u", "r", "n", "a", "l", "i", "s", "t">>,
          <<"m", "u", "s", "i", "c", "i", "a", "n">>, <<"p", "e", "r", "s", "o", "n">>,
          <<"p", "h", "i", "l", "o", "s", "o", "p", "h", "e", "r">>,
          <<"p", "o", "e", "t">>, <<"p", "o", "l", "i", "t", "i", "c", "i", "a", "n">>,
          <<"p", "r", "e", "s", "i", "d", "e", "n", "t">>,
          <<"p", "r", "o", "f", "e", "s", "s", "o", "r">>,
          <<"s", "c", "i", "e", "n", "t", "i", "s", "t">>,
          <<"s", "i", "n", "g", "e", "r">>, <<"w", "r", "i", "t", "e", "r">>},
       phrase_clues |->
         <<<<"h", "u", "m", "a", "n", " ", "b", "e", "i", "n", "g">>,
           <<"p", "r", "i", "m", "e", " ", "m", "i", "n", "i", "s", "t", "e", "r">>,
           <<"h", "e", "a", "d", " ", "o", "f", " ", "s", "t", "a", "t", "e">>,
           <<"p", "r", "e", "s", "i", "d", "e", "n", "t", " ", "o", "f">>>>,
       min_score |-> 1],
      [coarse |-> <<"P", "E", "R", "S", "O", "N">>,
       fine |-> <<"F", "I", "C", "T", "I", "O", "N", "A", "L", "_", "C", "H", "A", "R", "A", "C", "T", "E", "R">>,
       token_clues |->
         {<<"c", "h", "a", "r", "a", "c", "t", "e", "r">>,
          <<"f", "i", "c", "t", "i", "o", "n", "a", "l">>,
          <<"p", "r", "o", "t", "a", "g", "o", "n", "i", "s", "t">>,
          <<"s", "u", "p", "e", "r", "h", "e", "r", "o">>,
          <<"v", "i", "l", "l", "a", "i", "n">>},
       phrase_clues |->
         <<<<"f", "i", "c", "t", "i", "o", "n", "a", "l", " ", "c", "h", "a", "r", "a", "c", "t", "e", "r">>>>,
       min_score |-> 2],
      [coarse |-> <<"O", "R", "G", "A", "N", "I", "Z", "A", "T", "I", "O", "N">>,
       fine |-> <<"C", "O", "M", "P", "A", "N", "Y">>,
       token_clues |->
         {<<"b", "u", "s", "i", "n", "e", "s", "s">>,
          <<"c", "o", "m", "p", "a", "n", "y">>,
          <<"c", "o", "r", "p", "o", "r", "a", "t", "i", "o", "n">>,
          <<"e", "n", "t", "e", "r", "p", "r", "i", "s", "e">>, <<"f", "i", "r", "m">>,
          <<"m", "a", "n", "u", "f", "a", "c", "t", "u", "r", "e", "r">>,
          <<"m", "u", "l", "t", "i", "n", "a", "t", "i", "o", "n", "a", "l">>,
          <<"s", "t", "a", "r", "t", "u", "p">>},
       phrase_clues |->
         <<>>,
       min_score |-> 1],
      [coarse |-> <<"O", "R", "G", "A", "N", "I", "Z", "A", "T", "I", "O", "N">>,
       fine |-> <<"N", "O", "N", "P", "R", "O", "F", "I", "T", "_", "O", "R", "G">>,
       token_clues |->
         {<<"c", "h", "a", "r", "i", "t", "a", "b", "l", "e">>,
          <<"f", "o", "u", "n", "d", "a", "t", "i", "o", "n">>, <<"n", "g", "o">>,
          <<"n", "o", "n", "-", "p", "r", "o", "f", "i", "t">>,
          <<"n", "o", "n", "p", "r", "o", "f", "i", "t">>},
       phrase_clues |->
         <<<<"c", "h", "a", "r", "i", "t", "a", "b", "l", "e", " ", "o", "r", "g", "a", "n", "i", "z", "a", "t", "i", "o", "n">>,
           <<"n", "o", "n", "-", "p", "r", "o", "f", "i", "t", " ", "o", "r", "g", "a", "n", "i", "z", "a", "t", "i", "o", "n">>>>,
       min_score |-> 1],
      [coarse |-> <<"O", "R", "G", "A", "N", "I", "Z", "A", "T", "I", "O", "N">>,
       fine |-> <<"G", "O", "V", "E", "R", "N", "M", "E", "N", "T", "_", "O", "R", "G">>,
       token_clues |->
         {<<"a", "g", "e", "n", "c", "y">>, <<"c", "o", "u", "n", "c", "i", "l">>,
          <<"d", "e", "p", "a", "r", "t", "m", "e", "n", "t">>,
          <<"g", "o", "v", "e", "r", "n", "m", "e", "n", "t">>,
          <<"m", "i", "n", "i", "s", "t", "r", "y">>,
          <<"m", "u", "n", "i", "c", "i", "p", "a", "l", "i", "t", "y">>,
          <<"p", "a", "r", "l", "i", "a", "m", "e", "n", "t">>,
          <<"s", "e", "n", "a", "t", "e">>},
       phrase_clues |->
         <<>>,
       min_score |-> 1],
      [coarse |-> <<"O", "R", "G", "A", "N", "I", "Z", "A", "T", "I", "O", "N">>,
       fine |-> <<"E", "D", "U", "C", "A", "T", "I", "O", "N", "A", "L", "_", "O", "R", "G">>,
       token_clues |->
         {<<"a", "c", "a", "d", "e", "m", "y">>, <<"c", "o", "l", "l", "e", "g", "e">>,
          <<"i", "n", "s", "t", "i", "t", "u", "t", "e">>,
          <<"s", "c", "h", "o", "o", "l">>,
          <<"u", "n", "i", "v", "e", "r", "s", "i", "t", "y">>},
       phrase_clues |->
         <<>>,
       min_score |-> 1],
      [coarse |-> <<"O", "R", "G", "A", "N", "I", "Z", "A", "T", "I", "O", "N">>,
       fine |-> <<"S", "P", "O", "R", "T", "S", "_", "T", "E", "A", "M">>,
       token_clues |->
         {<<"a", "t", "h", "l", "e", "t", "i", "c">>,
          <<"b", "a", "s", "e", "b", "a", "l", "l">>,
          <<"b", "a", "s", "k", "e", "t", "b", "a", "l", "l">>, <<"f", "c">>,
          <<"h", "o", "c", "k", "e", "y">>, <<"s", "o", "c", "c", "e", "r">>,
          <<"t", "e", "a", "m">>},
       phrase_clues |->
         <<<<"f", "o", "o", "t", "b", "a", "l", "l", " ", "c", "l", "u", "b">>>>,
       min_score |-> 1],
      [coarse |-> <<"L", "O", "C", "A", "T", "I", "O", "N">>,
       fine |-> <<"C", "O", "U", "N", "T", "R", "Y">>,
       token_clues |->
         {<<"c", "o", "u", "n", "t", "r", "y">>, <<"k", "i", "n", "g", "d", "o", "m">>,
          <<"n", "a", "t", "i", "o", "n">>, <<"r", "e", "p", "u", "b", "l", "i", "c">>,
          <<"s", "o", "v", "e", "r", "e", "i", "g", "n">>},
       phrase_clues |->
         <<<<"s", "o", "v", "e", "r", "e", "i", "g", "n", " ", "s", "t", "a", "t", "e">>,
           <<"i", "n", "d", "e", "p", "e", "n", "d", "e", "n", "t", " ", "s", "t", "a", "t", "e">>,
           <<"c", "o", "u", "n", "t", "r", "y", " ", "i", "n">>>>,
       min_score |-> 1],
      [coarse |-> <<"L", "O", "C", "A", "T", "I", "O", "N">>,
       fine |-> <<"C", "I", "T", "Y">>,
       token_clues |->
         {<<"a", "r", "r", "o", "n", "d", "i", "s", "s", "e", "m", "e", "n", "t">>,
          <<"b", "o", "r", "o", "u", "g", "h">>, <<"c", "a", "p", "i", "t", "a", "l">>,
          <<"c", "i", "d", "a", "d", "e">>, <<"c", "i", "t", "y">>,
          <<"c", "i", "u", "d", "a", "d">>, <<"c", "o", "m", "m", "u", "n", "e">>,
          <<"c", "o", "m", "u", "n", "e">>, <<"m", "e", "g", "a", "c", "i", "t", "y">>,
          <<"m", "e", "t", "r", "o", "p", "o", "l", "i", "s">>,
          <<"m", "u", "n", "i", "c", "i", "p", "a", "l", "i", "t", "y">>,
          <<"m", "u", "n", "i", "c", "i", "p", "i", "o">>,
          <<"s", "e", "t", "t", "l", "e", "m", "e", "n", "t">>,
          <<"s", "t", "a", "d", "t">>, <<"s", "u", "b", "u", "r", "b">>,
          <<"t", "o", "w", "n">>, <<"v", "i", "l", "l", "a", "g", "e">>},
       phrase_clues |->
         <<<<"c", "i", "t", "y", " ", "i", "n">>, <<"t", "o", "w", "n", " ", "i", "n">>,
           <<"v", "i", "l", "l", "a", "g", "e", " ", "i", "n">>,
           <<"c", "a", "p", "i", "t", "a", "l", " ", "o", "f">>,
           <<"c", "o", "u", "n", "t", "y", " ", "s", "e", "a", "t">>,
           <<"c", "e", "n", "s", "u", "s", "-", "d", "e", "s", "i", "g", "n", "a", "t", "e", "d", " ", "p", "l", "a", "c", "e">>,
           <<"g", "l", "o", "b", "a", "l", " ", "c", "i", "t", "y">>,
           <<"n", "a", "t", "i", "o", "n", "a", "l", " ", "c", "a", "p", "i", "t", "a", "l">>,
           <<"p", "r", "i", "m", "a", "t", "e", " ", "c", "i", "t", "y">>,
           <<"l", "a", "r", "g", "e", "s", "t", " ", "c", "i", "t", "y">>>>,
       min_score |-> 1],
      [coarse |-> <<"L", "O", "C", "A", "T", "I", "O", "N">>,
       fine |-> <<"R", "E", "G", "I", "O", "N">>,
       token_clues |->
         {<<"c", "o", "n", "t", "i", "n", "e", "n", "t">>,
          <<"c", "o", "u", "n", "t", "y">>, <<"d", "i", "s", "t", "r", "i", "c", "t">>,
          <<"p", "r", "o", "v", "i", "n", "c", "e">>, <<"r", "e", "g", "i", "o", "n">>,
          <<"t", "e", "r", "r", "i", "t", "o", "r", "y">>},
       phrase_clues |->
         <<<<"s", "t", "a", "t", "e", " ", "o", "f", " ", "t", "h", "e", " ", "u", "n", "i", "t", "e", "d", " ", "s", "t", "a", "t", "e", "s">>,
           <<"s", "t", "a", "t", "e", " ", "i", "n", " ", "t", "h", "e", " ", "u", "n", "i", "t", "e", "d", " ", "s", "t", "a", "t", "e", "s">>,
           <<"f", "e", "d", "e", "r", "a", "l", " ", "s", "t", "a", "t", "e">>,
           <<"a", "u", "t", "o", "n", "o", "m", "o", "u", "s", " ", "r", "e", "g", "i", "o", "n">>>>,
       min_score |-> 1],
      [coarse |-> <<"L", "O", "C", "A", "T", "I", "O", "N">>,
       fine |-> <<"L", "A", "N", "D", "M", "A", "R", "K">>,
       token_clues |->
         {<<"a", "i", "r", "p", "o", "r", "t">>, <<"b", "a", "y">>,
          <<"b", "r", "i", "d", "g", "e">>, <<"b", "u", "i", "l", "d", "i", "n", "g">>,
          <<"d", "e", "s", "e", "r", "t">>, <<"g", "u", "l", "f">>,
          <<"i", "s", "l", "a", "n", "d">>, <<"l", "a", "k", "e">>,
          <<"m", "o", "n", "u", "m", "e", "n", "t">>,
          <<"m", "o", "u", "n", "t", "a", "i", "n">>, <<"o", "c", "e", "a", "n">>,
          <<"r", "i", "v", "e", "r">>, <<"s", "e", "a">>,
          <<"s", "t", "a", "t", "i", "o", "n">>, <<"s", "t", "r", "a", "i", "t">>,
          <<"v", "a", "l", "l", "e", "y">>, <<"v", "o", "l", "c", "a", "n", "o">>},
       phrase_clues |->
         <<>>,
       min_score |-> 1],
      [coarse |-> <<"L", "O", "C", "A", "T", "I", "O", "N">>,
       fine |-> <<"C", "E", "L", "E", "S", "T", "I", "A", "L", "_", "B", "O", "D", "Y">>,
       token_clues |->
         {<<"a", "s", "t", "e", "r", "o", "i", "d">>, <<"c", "o", "m", "e", "t">>,
          <<"g", "a", "l", "a", "x", "y">>, <<"m", "o", "o", "n">>,
          <<"p", "l", "a", "n", "e", "t">>, <<"s", "t", "a", "r">>,
          <<"u", "n", "i", "v", "e", "r", "s", "e">>},
       phrase_clues |->
         <<<<"s", "o", "l", "a", "r", " ", "s", "y", "s", "t", "e", "m">>,
           <<"c", "e", "l", "e", "s", "t", "i", "a", "l", " ", "b", "o", "d", "y">>>>,
       min_score |-> 1],
      [coarse |-> <<"E", "V", "E", "N", "T">>,
       fine |-> <<"C", "O", "N", "F", "L", "I", "C", "T">>,
       token_clues |->
         {<<"b", "a", "t", "t", "l", "e">>, <<"c", "a", "m", "p", "a", "i", "g", "n">>,
          <<"r", "e", "v", "o", "l", "u", "t", "i", "o", "n">>,
          <<"u", "p", "r", "i", "s", "i", "n", "g">>, <<"w", "a", "r">>},
       phrase_clues |->
         <<<<"a", "r", "m", "e", "d", " ", "c", "o", "n", "f", "l", "i", "c", "t">>,
           <<"m", "i", "l", "i", "t", "a", "r", "y", " ", "c", "o", "n", "f", "l", "i", "c", "t">>,
           <<"c", "i", "v", "i", "l", " ", "w", "a", "r">>>>,
       min_score |-> 2],
      [coarse |-> <<"E", "V", "E", "N", "T">>,
       fine |-> <<"S", "P", "O", "R", "T", "_", "E", "V", "E", "N", "T">>,
       token_clues |->
         {<<"c", "h", "a", "m", "p", "i", "o", "n", "s", "h", "i", "p">>,
          <<"c", "u", "p">>, <<"o", "l", "y", "m", "p", "i", "c", "s">>,
          <<"s", "e", "a", "s", "o", "n">>,
          <<"t", "o", "u", "r", "n", "a", "m", "e", "n", "t">>},
       phrase_clues |->
         <<>>,
       min_score |-> 2],
      [coarse |-> <<"E", "V", "E", "N", "T">>,
       fine |-> <<"E", "V", "E", "N", "T", "_", "G", "E", "N", "E", "R", "I", "C">>,
       token_clues |->
         {<<"c", "o", "n", "f", "e", "r", "e", "n", "c", "e">>,
          <<"e", "l", "e", "c", "t", "i", "o", "n">>, <<"e", "v", "e", "n", "t">>,
          <<"f", "e", "s", "t", "i", "v", "a", "l">>, <<"s", "u", "m", "m", "i", "t">>},
       phrase_clues |->
         <<>>,
       min_score |-> 2],
      [coarse |-> <<"W", "O", "R", "K">>,
       fine |-> <<"F", "I", "L", "M">>,
       token_clues |->
         {<<"c", "i", "n", "e", "m", "a">>,
          <<"d", "o", "c", "u", "m", "e", "n", "t", "a", "r", "y">>,
          <<"f", "i", "l", "m">>, <<"m", "o", "v", "i", "e">>},
       phrase_clues |->
         <<>>,
       min_score |-> 1],
      [coarse |-> <<"W", "O", "R", "K">>,
       fine |-> <<"B", "O", "O", "K">>,
       token_clues |->
         {<<"b", "o", "o", "k">>, <<"l", "i", "t", "e", "r", "a", "t", "u", "r", "e">>,
          <<"n", "o", "v", "e", "l">>, <<"p", "o", "e", "m">>},
       phrase_clues |->
         <<>>,
       min_score |-> 1],
      [coarse |-> <<"W", "O", "R", "K">>,
       fine |-> <<"M", "U", "S", "I", "C", "_", "W", "O", "R", "K">>,
       token_clues |->
         {<<"a", "l", "b", "u", "m">>, <<"a", "n", "t", "h", "e", "m">>,
          <<"o", "p", "e", "r", "a">>, <<"s", "o", "n", "g">>,
          <<"s", "y", "m", "p", "h", "o", "n", "y">>},
       phrase_clues |->
         <<>>,
       min_score |-> 1],
      [coarse |-> <<"W", "O", "R", "K">>,
       fine |-> <<"S", "O", "F", "T", "W", "A", "R", "E">>,
       token_clues |->
         {<<"a", "p", "p">>, <<"a", "p", "p", "l", "i", "c", "a", "t", "i", "o", "n">>,
          <<"f", "r", "a", "m", "e", "w", "o", "r", "k">>,
          <<"l", "i", "b", "r", "a", "r", "y">>, <<"p", "r", "o", "g", "r", "a", "m">>,
          <<"s", "o", "f", "t", "w", "a", "r", "e">>},
       phrase_clues |->
         <<<<"o", "p", "e", "r", "a", "t", "i", "n", "g", " ", "s", "y", "s", "t", "e", "m">>>>,
       min_score |-> 1],
      [coarse |-> <<"W", "O", "R", "K">>,
       fine |-> <<"I", "N", "T", "E", "R", "N", "E", "T", "_", "M", "E", "M", "E">>,
       token_clues |->
         {<<"m", "e", "m", "e">>},
       phrase_clues |->
         <<<<"i", "n", "t", "e", "r", "n", "e", "t", " ", "m", "e", "m", "e">>>>,
       min_score |-> 1],
      [coarse |-> <<"P", "R", "O", "D", "U", "C", "T">>,
       fine |-> <<"D", "E", "V", "I", "C", "E">>,
       token_clues |->
         {<<"a", "i", "r", "c", "r", "a", "f", "t">>,
          <<"a", "i", "r", "l", "i", "n", "e", "r">>,
          <<"a", "u", "t", "o", "m", "o", "b", "i", "l", "e">>,
          <<"d", "e", "v", "i", "c", "e">>, <<"h", "a", "r", "d", "w", "a", "r", "e">>,
          <<"l", "a", "p", "t", "o", "p">>, <<"p", "h", "o", "n", "e">>,
          <<"p", "r", "i", "n", "t", "e", "r">>,
          <<"s", "m", "a", "r", "t", "p", "h", "o", "n", "e">>,
          <<"t", "r", "a", "i", "n">>, <<"v", "e", "h", "i", "c", "l", "e">>},
       phrase_clues |->
         <<>>,
       min_score |-> 1],
      [coarse |-> <<"P", "R", "O", "D", "U", "C", "T">>,
       fine |-> <<"M", "E", "D", "I", "C", "A", "T", "I", "O", "N">>,
       token_clues |->
         {<<"a", "n", "t", "i", "b", "i", "o", "t", "i", "c">>, <<"d", "r", "u", "g">>,
          <<"m", "e", "d", "i", "c", "i", "n", "e">>,
          <<"t", "r", "e", "a", "t", "m", "e", "n", "t">>,
          <<"v", "a", "c", "c", "i", "n", "e">>},
       phrase_clues |->
         <<>>,
       min_score |-> 1],
      [coarse |-> <<"P", "R", "O", "D", "U", "C", "T">>,
       fine |-> <<"F", "O", "O", "D", "_", "B", "E", "V", "E", "R", "A", "G", "E">>,
       token_clues |->
         {<<"a", "l", "c", "o", "h", "o", "l", "i", "c">>,
          <<"b", "e", "v", "e", "r", "a", "g", "e">>,
          <<"c", "u", "i", "s", "i", "n", "e">>, <<"d", "i", "s", "h">>,
          <<"d", "r", "i", "n", "k">>, <<"f", "o", "o", "d">>, <<"m", "e", "a", "l">>,
          <<"n", "o", "n", "-", "a", "l", "c", "o", "h", "o", "l", "i", "c">>,
          <<"n", "o", "n", "a", "l", "c", "o", "h", "o", "l", "i", "c">>,
          <<"s", "n", "a", "c", "k">>},
       phrase_clues |->
         <<<<"a", "l", "c", "o", "h", "o", "l", "i", "c", " ", "b", "e", "v", "e", "r", "a", "g", "e">>,
           <<"n", "o", "n", "-", "a", "l", "c", "o", "h", "o", "l", "i", "c", " ", "b", "e", "v", "e", "r", "a", "g", "e">>>>,
       min_score |-> 1],
      [coarse |-> <<"P", "R", "O", "D", "U", "C", "T">>,
       fine |-> <<"P", "R", "O", "D", "U", "C", "T", "_", "G", "E", "N", "E", "R", "I", "C">>,
       token_clues |->
         {<<"b", "r", "a", "n", "d">>, <<"m", "o", "d", "e", "l">>,
          <<"p", "r", "o", "d", "u", "c", "t">>},
       phrase_clues |->
         <<>>,
       min_score |-> 1],
      [coarse |-> <<"C", "O", "N", "C", "E", "P", "T">>,
       fine |-> <<"L", "A", "N", "G", "U", "A", "G", "E">>,
       token_clues |->
         {<<"d", "i", "a", "l", "e", "c", "t">>,
          <<"l", "a", "n", "g", "u", "a", "g", "e">>},
       phrase_clues |->
         <<>>,
       min_score |-> 1],
      [coarse |-> <<"C", "O", "N", "C", "E", "P", "T">>,
       fine |-> <<"L", "A", "W">>,
       token_clues |->
         {<<"c", "o", "d", "e">>,
          <<"c", "o", "n", "s", "t", "i", "t", "u", "t", "i", "o", "n">>,
          <<"d", "i", "r", "e", "c", "t", "i", "v", "e">>, <<"l", "a", "w">>,
          <<"r", "e", "g", "u", "l", "a", "t", "i", "o", "n">>,
          <<"s", "t", "a", "t", "u", "t", "e">>, <<"t", "r", "e", "a", "t", "y">>},
       phrase_clues |->
         <<<<"l", "a", "w", " ", "o", "f">>, <<"a", "c", "t", " ", "o", "f">>,
           <<"t", "r", "e", "a", "t", "y", " ", "o", "f">>,
           <<"r", "e", "g", "u", "l", "a", "t", "i", "o", "n", " ", "o", "f">>>>,
       min_score |-> 2],
      [coarse |-> <<"C", "O", "N", "C", "E", "P", "T">>,
       fine |-> <<"S", "C", "I", "E", "N", "T", "I", "F", "I", "C", "_", "T", "H", "E", "O", "R", "Y">>,
       token_clues |->
         {<<"e", "q", "u", "a", "t", "i", "o", "n">>,
          <<"h", "y", "p", "o", "t", "h", "e", "s", "i", "s">>,
          <<"p", "r", "i", "n", "c", "i", "p", "l", "e">>,
          <<"t", "h", "e", "o", "r", "e", "m">>, <<"t", "h", "e", "o", "r", "y">>},
       phrase_clues |->
         <<>>,
       min_score |-> 1],
      [coarse |-> <<"C", "O", "N", "C", "E", "P", "T">>,
       fine |-> <<"B", "I", "O", "L", "O", "G", "I", "C", "A", "L", "_", "T", "A", "X", "O", "N">>,
       token_clues |->
         {<<"c", "l", "a", "d", "e">>, <<"g", "e", "n", "u", "s">>,
          <<"m", "a", "m", "m", "a", "l">>, <<"s", "p", "e", "c", "i", "e", "s">>,
          <<"s", "u", "b", "s", "p", "e", "c", "i", "e", "s">>,
          <<"t", "a", "x", "o", "n">>},
       phrase_clues |->
         <<>>,
       min_score |-> 1],
      [coarse |-> <<"C", "O", "N", "C", "E", "P", "T">>,
       fine |-> <<"A", "N", "A", "T", "O", "M", "Y">>,
       token_clues |->
         {<<"a", "n", "a", "t", "o", "m", "i", "c", "a", "l">>,
          <<"a", "n", "a", "t", "o", "m", "y">>, <<"a", "r", "t", "e", "r", "y">>,
          <<"b", "o", "n", "e">>, <<"m", "u", "s", "c", "l", "e">>,
          <<"o", "r", "g", "a", "n">>, <<"v", "e", "i", "n">>},
       phrase_clues |->
         <<<<"p", "a", "r", "t", " ", "o", "f", " ", "t", "h", "e", " ", "b", "o", "d", "y">>,
           <<"p", "a", "r", "t", " ", "o", "f", " ", "b", "o", "d", "y">>,
           <<"s", "e", "x", "u", "a", "l", " ", "o", "r", "g", "a", "n">>,
           <<"a", "n", "a", "t", "o", "m", "i", "c", "a", "l", " ", "s", "t", "r", "u", "c", "t", "u", "r", "e">>>>,
       min_score |-> 2]
    >>

RELATION == <<"R", "E", "L", "A", "T", "I", "O", "N">>

PROPERTY == <<"P", "R", "O", "P", "E", "R", "T", "Y">>

MISC == <<"M", "I", "S", "C">>

ENTITY == <<"E", "N", "T", "I", "T", "Y">>

_has_english_text(labels, aliases, descriptions) ==
    \/ "en" \in DOMAIN descriptions
    \/ "en" \in DOMAIN labels
    \/ /\ "en" \in DOMAIN aliases
       /\ \E i \in DOMAIN aliases["en"] : normalize_text(aliases["en"][i]) # <<>>

\* The loops of _iter_text_values: each candidate is normalised and appended
\* unless it is empty or already among the values.
RECURSIVE AppendNewTexts(_, _)
AppendNewTexts(values, candidates) ==
    IF candidates = <<>> THEN values
    ELSE LET candidate == normalize_text(Head(candidates))
         IN  IF candidate # <<>> /\ candidate \notin Range(values)
             THEN AppendNewTexts(Append(values, candidate), Tail(candidates))
             ELSE AppendNewTexts(values, Tail(candidates))

\* ("en",) if use_english_only else sorted(value_map), without the languages
\* the map does not have.
TextLanguages(value_map, use_english_only) ==
    SelectSeq(IF use_english_only THEN <<"en">> ELSE SortedLanguages,
              LAMBDA language : language \in DOMAIN value_map)

_iter_text_values(labels, aliases, descriptions) ==
    LET use_english_only == _has_english_text(labels, aliases, descriptions)
        description_languages == TextLanguages(descriptions, use_english_only)
        label_languages == TextLanguages(labels, use_english_only)
        alias_languages == TextLanguages(aliases, use_english_only)
        from_descriptions ==
            AppendNewTexts(<<>>, [i \in DOMAIN description_languages |->
                                     descriptions[description_languages[i]]])
        from_labels ==
            AppendNewTexts(from_descriptions,
                           [i \in DOMAIN label_languages |-> labels[label_languages[i]]])
    IN  AppendNewTexts(from_labels,
                       Concat([i \in DOMAIN alias_languages |-> aliases[alias_languages[i]]]))

\* "\n".join(value.casefold() for value in text_values)
RECURSIVE JoinCasefolded(_)
JoinCasefolded(text_values) ==
    IF text_values = <<>> THEN <<>>
    ELSE IF Len(text_values) = 1 THEN CasefoldText(Head(text_values))
    ELSE CasefoldText(Head(text_values)) \o <<"\n">> \o JoinCasefolded(Tail(text_values))

\* phrase and phrase in normalized_text
PhraseIn(phrase, text) ==
    /\ phrase # <<>>
    /\ \E i \in 1..(Len(text) - Len(phrase) + 1) :
          SubSeq(text, i, i + Len(phrase) - 1) = phrase

rule_score(rule, normalized_text, token_set) ==
    Cardinality(rule.token_clues \cap token_set)
    + 2 * Cardinality({i \in DOMAIN rule.phrase_clues :
                          PhraseIn(rule.phrase_clues[i], normalized_text)})

\* scored_rules before it is sorted: the rules that reach their min_score, in
\* the order of the table, each with its score.
scored_rules(normalized_text, token_set) ==
    SelectSeq([i \in DOMAIN FINE_TYPE_RULES |->
                  [score |-> rule_score(FINE_TYPE_RULES[i], normalized_text, token_set),
                   rule |-> FINE_TYPE_RULES[i]]],
              LAMBDA item : item.score >= item.rule.min_score)

\* scored_rules.sort(key=lambda item: (-item[0], item[1].fine))
sort_scored_rules(scored) ==
    SortBy(scored, LAMBDA item : <<0 - item.score, 0, 0, item.rule.fine>>, FALSE)

\* The first two rules of the order, tied or not.
select_top_two_rules(sorted) == SubSeq(sorted, 1, Min2(2, Len(sorted)))

\* selected: the rules that tie the top score, at most two of them.
select_top_rules(sorted) ==
    LET tied == SelectSeq(sorted, LAMBDA item : item.score = sorted[1].score)
    IN  SubSeq(tied, 1, Min2(2, Len(tied)))

\* coarse_scores: the coarse labels of the selected rules in the order they
\* are first met, each with the sum of the scores of its rules.
RECURSIVE CoarseScoresFrom(_, _)
CoarseScoresFrom(selected, coarse_scores) ==
    IF selected = <<>> THEN coarse_scores
    ELSE LET item == Head(selected)
             at == {i \in DOMAIN coarse_scores : coarse_scores[i].coarse = item.rule.coarse}
         IN  IF at = {}
             THEN CoarseScoresFrom(Tail(selected),
                                   Append(coarse_scores, [coarse |-> item.rule.coarse,
                                                          score |-> item.score]))
             ELSE CoarseScoresFrom(Tail(selected),
                                   [i \in DOMAIN coarse_scores |->
                                       IF i \in at
                                       THEN [coarse |-> coarse_scores[i].coarse,
                                             score |-> coarse_scores[i].score + item.score]
                                       ELSE coarse_scores[i]])

\* sorted(coarse_scores.items(), key=lambda item: (-item[1], item[0]))[:2]
coarse_types_of(selected) ==
    LET sorted_coarse == SortBy(CoarseScoresFrom(selected, <<>>),
                                LAMBDA item : <<0 - item.score, 0, 0, item.coarse>>, FALSE)
        first_two == SubSeq(sorted_coarse, 1, Min2(2, Len(sorted_coarse)))
    IN  [i \in DOMAIN first_two |-> first_two[i].coarse]

\* fine_types: the fine names of the selected rules, each once.
RECURSIVE FineTypesFrom(_, _)
FineTypesFrom(selected, fine_types) ==
    IF selected = <<>> THEN fine_types
    ELSE IF Head(selected).rule.fine \in Range(fine_types)
         THEN FineTypesFrom(Tail(selected), fine_types)
    ELSE FineTypesFrom(Tail(selected), Append(fine_types, Head(selected).rule.fine))

\* infer_ner_types after the test of the id.
typed_by_rules(labels, aliases, descriptions) ==
    LET text_values == _iter_text_values(labels, aliases, descriptions)
        normalized_text == JoinCasefolded(text_values)
        token_set == Range(tokenize(normalized_text))
        sorted == sort_scored_rules(scored_rules(normalized_text, token_set))
        selected == select_top_rules(sorted)
        coarse_types == coarse_types_of(selected)
        fine_types == FineTypesFrom(selected, <<>>)
    IN  IF text_values = <<>> \/ sorted = <<>>
        THEN [coarse_types |-> <<MISC>>, fine_types |-> <<ENTITY>>, source |-> "lexical_v1"]
        ELSE [coarse_types |-> IF coarse_types = <<>> THEN <<MISC>> ELSE coarse_types,
              fine_types |-> IF fine_types = <<>> THEN <<ENTITY>> ELSE fine_types,
              source |-> "lexical_v1"]

\* A typer that looks at the id only when no rule passes.
infer_ner_types_texts_first(entity_id, labels, aliases, descriptions) ==
    LET typed == typed_by_rules(labels, aliases, descriptions)
    IN  IF typed.fine_types = <<ENTITY>> /\ entity_id # <<>> /\ Head(entity_id) = "P"
        THEN [coarse_types |-> <<RELATION>>, fine_types |-> <<PROPERTY>>,
              source |-> "lexical_v1"]
        ELSE typed

infer_ner_types(entity_id, labels, aliases, descriptions) ==
    IF entity_id # <<>> /\ Head(entity_id) = "P"
    THEN [coarse_types |-> <<RELATION>>, fine_types |-> <<PROPERTY>>, source |-> "lexical_v1"]
    ELSE typed_by_rules(labels, aliases, descriptions)

\* The texts given to the typer: without a clue, with one clue, with clues of
\* two and of three rules, with a phrase, with a clue below min_score.
NerTexts ==
    {<<>>,
     <<"w", "r", "i", "t", "e", "r", " ", "a", "n", "d", " ", "a", "u", "t", "h", "o", "r">>,
     <<"A", " ", "t", "e", "c", "h", "n", "o", "l", "o", "g", "y", " ", "c", "o", "m", "p", "a", "n", "y">>,
     <<"a", "c", "t", "o", "r", " ", "a", "n", "d", " ", "c", "o", "m", "p", "a", "n", "y">>,
     <<"f", "i", "c", "t", "i", "o", "n", "a", "l">>,
     <<"f", "i", "c", "t", "i", "o", "n", "a", "l", " ", "c", "h", "a", "r", "a", "c", "t", "e", "r">>,
     <<"a", "c", "t", "o", "r", " ", "c", "o", "m", "p", "a", "n", "y", " ", "c", "i", "t", "y">>,
     <<"c", "o", "m", "p", "a", "n", "y", " ", "u", "n", "i", "v", "e", "r", "s", "i", "t", "y">>,
     <<"p", "r", "e", "s", "i", "d", "e", "n", "t", " ", "o", "f", " ", "a", " ", "c", "o", "u", "n", "t", "r", "y">>,
     <<"n", "o", "n", "-", "p", "r", "o", "f", "i", "t", " ", "o", "r", "g", "a", "n", "i", "z", "a", "t", "i", "o", "n">>,
     <<"c", "a", "p", "i", "t", "a", "l", " ", "o", "f", " ", "B">>,
     <<"f", "i", "l", "m", " ", "i", "n", " ", "a", " ", "w", "a", "r">>,
     <<"v", "e", "l", "o", "c", "i", "t", "y", " ", "i", "n", " ", "a", " ", "c", "a", "r">>,
     <<" ", "a", " ", " ", "b", " ">>}

NerDescriptions ==
    {<<>>}
    \cup {[language \in {"en"} |-> text] : text \in NerTexts}
    \cup {[language \in {"de"} |-> text] :
            text \in {<<"f", "i", "l", "m">>,
                      <<"a", "c", "t", "o", "r", " ", "c", "o", "m", "p", "a", "n", "y">>}}
    \cup {[language \in {"de", "en"} |->
             IF language = "en" THEN <<"B">> ELSE <<"s", "i", "n", "g", "e", "r">>]}

NerLabels ==
    {<<>>,
     [language \in {"en"} |-> <<"a", "c", "t", "o", "r">>],
     [language \in {"en"} |-> <<"B">>],
     [language \in {"de"} |-> <<"c", "o", "m", "p", "a", "n", "y">>]}

NerAliases ==
    {<<>>,
     [language \in {"en"} |-> <<<<"c", "i", "t", "y">>, <<"a", "c", "t", "o", "r">>>>],
     [language \in {"en"} |-> <<<<" ">>>>],
     [language \in {"de"} |-> <<<<"s", "i", "n", "g", "e", "r">>, <<" ">>>>]}

NerEntityIds == {<<"Q", "1">>, <<"P", "1">>, <<"p", "1">>, <<>>}

NerInit ==
    /\ ner_entity_id \in NerEntityIds
    /\ ner_labels \in NerLabels
    /\ ner_aliases \in NerAliases
    /\ ner_descriptions \in NerDescriptions
    /\ ner_types = None
    /\ RerankIdle
    /\ KeyIdle
    /\ LookupIdle
    /\ Pass1Idle
    /\ IngestIdle
    /\ Pass2Idle
    /\ PipelineIdle
    /\ CategoryIdle
    /\ QuickwitIdle
    /\ ResolverIdle

\* infer_ner_types(entity_id, labels, aliases, descriptions)
InferNerTypes ==
    /\ ner_types = None
    /\ ner_types' = Some(infer_ner_types(ner_entity_id, ner_labels, ner_aliases,
                                         ner_descriptions))
    /\ UNCHANGED <<ner_entity_id, ner_labels, ner_aliases, ner_descriptions>>
    /\ UNCHANGED <<rerankVars, keyVars, lookupVars, pass1Vars, ingestVars, pass2Vars,
                   pipelineVars, categoryVars>>
    /\ UNCHANGED quickwitVars
    /\ UNCHANGED resolverVars

NerNext == InferNerTypes

SpecNer == NerInit /\ [][NerNext]_vars

-----------------------------------------------------------------------------
(* The Quickwit client of quickwit_client.py.                              *)
(*                                                                         *)
(* _request_json either returns the decoded body, {} for an empty one, or  *)
(* raises QuickwitClientError, with the status of an HTTP error and without *)
(* a status for a timeout, an unreachable server or a body that is not     *)
(* JSON.                                                                   *)

EmptyObject == "{}"

Returned(value) == [raised |-> FALSE, value |-> value, status_code |-> None]

QuickwitClientError(status_code) ==
    [raised |-> TRUE, value |-> EmptyObject, status_code |-> status_code]

\* What the server and the network make of one request.
RequestOutcomes ==
    {Returned("created"), Returned(EmptyObject), QuickwitClientError(None)}
    \cup {QuickwitClientError(Some(code)) : code \in {400, 401, 404, 405, 409, 500, 502}}

\* parse.quote(index_id, safe=""): letters stay, the other characters of the
\* index ids used here are percent-encoded.
RECURSIVE quote(_)
quote(text) ==
    IF text = <<>> THEN <<>>
    ELSE (CASE Head(text) = "/" -> <<"%", "2", "F">>
            [] Head(text) = " " -> <<"%", "2", "0">>
            [] OTHER -> <<Head(text)>>) \o quote(Tail(text))

CreateRequest == [method |-> "POST", path |-> "/api/v1/indexes", index_id |-> <<>>]

LegacyRequest(index_id) ==
    [method |-> "PUT", path |-> "/api/v1/indexes/{index_id}?create=true",
     index_id |-> quote(index_id)]

\* A handler of the first error that falls back unless the index exists.
after_create_falling_back_always(outcome) ==
    IF ~outcome.raised THEN "return"
    ELSE IF outcome.status_code = Some(409) THEN "return empty"
    ELSE "fallback"

\* The first try block of ensure_index.
after_create(outcome) ==
    IF ~outcome.raised THEN "return"
    ELSE IF outcome.status_code = Some(409) THEN "return empty"
    ELSE IF outcome.status_code \notin {Some(400), Some(404), Some(405)} THEN "raise"
    ELSE "fallback"

\* The second try block of ensure_index.
after_legacy(outcome) ==
    IF ~outcome.raised THEN "return"
    ELSE IF outcome.status_code = Some(409) THEN "return empty"
    ELSE "raise"

\* What ensure_index returns or raises after the request that decided.
ensure_index_result(decision, outcome) ==
    CASE decision = "return" -> Returned(outcome.value)
      [] decision = "return empty" -> Returned(EmptyObject)
      [] OTHER -> outcome

\* The calls of ensure_index after the first one.
MaxCalls == 2

IndexIds == {<<"w">>, <<"a", "/", "b">>}

QuickwitInit ==
    /\ qw_pc = "idle"
    /\ qw_index_id \in IndexIds
    /\ qw_requests = <<>>
    /\ qw_responses = <<>>
    /\ qw_result = None
    /\ qw_calls = 0
    /\ RerankIdle
    /\ KeyIdle
    /\ LookupIdle
    /\ Pass1Idle
    /\ IngestIdle
    /\ Pass2Idle
    /\ PipelineIdle
    /\ CategoryIdle
    /\ NerIdle
    /\ ResolverIdle

OtherThanQuickwit ==
    <<rerankVars, keyVars, lookupVars, pass1Vars, ingestVars, pass2Vars, pipelineVars,
      categoryVars, nerVars>>

\* ensure_index, the request to the create endpoint and what follows from its
\* outcome.
EnsureIndexCreate ==
    /\ qw_pc = "idle"
    /\ \E outcome \in RequestOutcomes :
          \E decision \in {after_create(outcome)} :
              /\ qw_requests' = Append(qw_requests, CreateRequest)
              /\ qw_responses' = Append(qw_responses, outcome)
              /\ IF decision = "fallback"
                 THEN qw_pc' = "legacy" /\ qw_result' = qw_result
                 ELSE /\ qw_pc' = "done"
                      /\ qw_result' = Some(ensure_index_result(decision, outcome))
    /\ UNCHANGED <<qw_index_id, qw_calls>>
    /\ UNCHANGED OtherThanQuickwit
    /\ UNCHANGED resolverVars

\* ensure_index, the request to the legacy endpoint and what follows from its
\* outcome.
EnsureIndexLegacy ==
    /\ qw_pc = "legacy"
    /\ \E outcome \in RequestOutcomes :
          /\ qw_requests' = Append(qw_requests, LegacyRequest(qw_index_id))
          /\ qw_responses' = Append(qw_responses, outcome)
          /\ qw_pc' = "done"
          /\ qw_result' = Some(ensure_index_result(after_legacy(outcome), outcome))
    /\ UNCHANGED <<qw_index_id, qw_calls>>
    /\ UNCHANGED OtherThanQuickwit
    /\ UNCHANGED resolverVars

\* The next call of ensure_index, on the same or on another index.
EnsureIndexAgain ==
    /\ qw_pc = "done"
    /\ qw_calls < MaxCalls
    /\ qw_calls' = qw_calls + 1
    /\ qw_pc' = "idle"
    /\ qw_index_id' \in IndexIds
    /\ qw_requests' = <<>>
    /\ qw_responses' = <<>>
    /\ qw_result' = None
    /\ UNCHANGED OtherThanQuickwit
    /\ UNCHANGED resolverVars

QuickwitNext == EnsureIndexCreate \/ EnsureIndexLegacy \/ EnsureIndexAgain

SpecQuickwit == QuickwitInit /\ [][QuickwitNext]_vars

-----------------------------------------------------------------------------
(* The label resolver of build_bow_docs.py.                                *)
(*                                                                         *)
(* _cache is a sequence of entries [object_id, label], the least recently  *)
(* used first; the label of an entry is None when the labels database has  *)
(* no label for the id.                                                    *)

\* The labels table: Q1 and Q3 have the same label, Q4 has no row.
LabelsDb ==
    (<<"Q", "1">> :> <<"a">>) @@ (<<"Q", "2">> :> <<"b">>) @@ (<<"Q", "3">> :> <<"a">>)

\* _fetch_labels: the ids that have a label, each with its label.
_fetch_labels(labels_db, object_ids) ==
    [object_id \in {id \in Range(object_ids) : id \in DOMAIN labels_db /\ labels_db[id] # <<>>}
        |-> labels_db[object_id]]

CachedIds(_cache) == {_cache[i].object_id : i \in DOMAIN _cache}

CachedLabel(_cache, object_id) ==
    _cache[CHOOSE i \in DOMAIN _cache : _cache[i].object_id = object_id].label

\* cached = self._cache.pop(object_id); self._cache[object_id] = cached
MoveToEnd(_cache, object_id) ==
    SelectSeq(_cache, LAMBDA entry : entry.object_id # object_id)
    \o <<[object_id |-> object_id, label |-> CachedLabel(_cache, object_id)]>>

\* self._cache[object_id] = label, then popitem(last=False) while the cache
\* is larger than cache_size.
CachePut(_cache, object_id, label, cache_size) ==
    LET stored == IF object_id \in CachedIds(_cache)
                  THEN [i \in DOMAIN cache |->
                           IF _cache[i].object_id = object_id
                           THEN [object_id |-> object_id, label |-> label]
                           ELSE _cache[i]]
                  ELSE Append(_cache, [object_id |-> object_id, label |-> label])
    IN  IF Len(stored) > cache_size
        THEN SubSeq(stored, Len(stored) - cache_size + 1, Len(stored))
        ELSE stored

\* isinstance(label, str) and label and label not in seen_labels
AppendLabel(labels, label) ==
    IF label # None /\ label[1] # <<>> /\ label[1] \notin Range(labels)
    THEN Append(labels, label[1])
    ELSE labels

\* The first loop of resolve: the ids in the cache give their labels and
\* become the most recently used, the others are missing.
RECURSIVE ResolveCached(_, _)
ResolveCached(object_ids, state) ==
    IF object_ids = <<>> THEN state
    ELSE IF Head(object_ids) \in CachedIds(state.cache)
         THEN ResolveCached(Tail(object_ids),
                            [cache |-> MoveToEnd(state.cache, Head(object_ids)),
                             labels |-> AppendLabel(state.labels,
                                                    CachedLabel(state.cache, Head(object_ids))),
                             missing_ids |-> state.missing_ids])
    ELSE ResolveCached(Tail(object_ids),
                       [state EXCEPT !.missing_ids = Append(state.missing_ids,
                                                            Head(object_ids))])

\* The second loop of resolve: the missing ids are cached with what was
\* fetched for them and give their labels.
RECURSIVE ResolveMissing(_, _, _, _)
ResolveMissing(missing_ids, fetched, state, cache_size) ==
    IF missing_ids = <<>> THEN state
    ELSE LET object_id == Head(missing_ids)
             label == IF object_id \in DOMAIN fetched THEN Some(fetched[object_id]) ELSE None
         IN  ResolveMissing(Tail(missing_ids), fetched,
                            [cache |-> CachePut(state.cache, object_id, label, cache_size),
                             labels |-> AppendLabel(state.labels, label),
                             missing_ids |-> state.missing_ids],
                            cache_size)

\* ObjectLabelResolver.resolve: the labels it returns and the cache it leaves.
resolve(_cache, cache_size, labels_db, object_ids) ==
    IF object_ids = <<>> THEN [labels |-> <<>>, cache |-> _cache]
    ELSE LET cached == ResolveCached(object_ids,
                                     [cache |-> _cache, labels |-> <<>>, missing_ids |-> <<>>])
             done == ResolveMissing(cached.missing_ids,
                                    _fetch_labels(labels_db, cached.missing_ids),
                                    cached, cache_size)
         IN  [labels |-> done.labels, cache |-> done.cache]

MaxObjectIds == 2

MaxResolves == 3

ObjectIdLists ==
    UNION {[1..n -> {<<"Q", "1">>, <<"Q", "2">>, <<"Q", "3">>, <<"Q", "4">>}] :
              n \in 0..MaxObjectIds}

\* ObjectLabelResolver(cursor, cache_size=...): self._cache_size is
\* max(1, cache_size), the cache is empty.
ResolverInit ==
    /\ \E cache_size \in {0, 1, 2, 200000} : lr_cache_size = Max2(1, cache_size)
    /\ lr_cache = <<>>
    /\ lr_object_ids = <<>>
    /\ lr_labels = None
    /\ lr_calls = 0
    /\ RerankIdle
    /\ KeyIdle
    /\ LookupIdle
    /\ Pass1Idle
    /\ IngestIdle
    /\ Pass2Idle
    /\ PipelineIdle
    /\ CategoryIdle
    /\ NerIdle
    /\ QuickwitIdle

\* object_label_resolver.resolve(claim_object_ids)
Resolve ==
    /\ lr_calls < MaxResolves
    /\ \E object_ids \in ObjectIdLists :
          \E resolved \in {resolve(lr_cache, lr_cache_size, LabelsDb, object_ids)} :
              /\ lr_object_ids' = object_ids
              /\ lr_labels' = Some(resolved.labels)
              /\ lr_cache' = resolved.cache
    /\ lr_calls' = lr_calls + 1
    /\ UNCHANGED lr_cache_size
    /\ UNCHANGED <<rerankVars, keyVars, lookupVars, pass1Vars, ingestVars, pass2Vars,
                   pipelineVars, categoryVars, nerVars, quickwitVars>>

ResolverNext == Resolve

SpecResolver == ResolverInit /\ [][ResolverNext]_vars

-----------------------------------------------------------------------------
(* Claims about pass 2 and the driver.                                     *)

\* C13: pass 2 is idempotent: after a complete run of pass 2, a second
\* complete run of pass 2 on the same store, with any batch size and any
\* number of workers, leaves every context_string as the first run left it.
C13_Pass2Idempotent ==
    pass2_contexts # None /\ pass2_contexts_before # None
        => pass2_contexts[1] = pass2_contexts_before[1]

\* Two complete runs of pass 2 on a store pass 1 filled, the second of which
\* wrote context strings that are not empty.
C13_Witness ==
    /\ runs = 2 /\ mode = "pass2" /\ pass2_pc = "returned"
    /\ pass2_contexts # None /\ pass2_contexts_before # None
    /\ \E qid \in DOMAIN pass2_contexts[1] : Len(pass2_contexts[1][qid]) > 1
    /\ last_write # NoWrite
    /\ last_write[1].call = "update_context_strings" /\ ~last_write[1].raised

\* Pass 1 run by one thread on the whole dump as one batch.
SequentialPass1(raw_entities, language_allowlist) ==
    executemany([entities |-> {}, context_inputs |-> {}],
                upsert_statements(Concat(TransformBatch(raw_entities, language_allowlist)),
                                  TRUE))

\* Pass 2 run by one thread on the whole store as one batch.
SequentialPass2(store, cache_table) ==
    LET batch == load_context_inputs(store.context_inputs,
                                     Ascending({r.qid : r \in store.entities}))
        label_map == resolve_labels(store.entities, cache_table, related_ids_of(batch))
    IN  executemany(store, context_updates(batch, label_map))

\* The columns of the rows that the claim is about.
Observable(entity_table) ==
    {[qid |-> r.qid, label |-> r.label, aliases |-> r.aliases,
      context_string |-> r.context_string, coarse_type |-> r.coarse_type,
      fine_type |-> r.fine_type, prior |-> r.prior] : r \in entity_table}

\* C14: the final store is independent of the interleaving of the workers:
\* every run that ingests the dump and exits 0, whatever the completion
\* order of the pass-1 transforms and of the pass-2 batches and whatever the
\* number of workers, ends with the label, aliases, context_string,
\* coarse_type, fine_type and prior that one thread working through the
\* dump in order ends with.
C14_FinalStoreIndependentOfInterleaving ==
    pc = "exit" /\ exit_code = Some(0) /\ mode \in {"pass1", "all"}
        => Observable(entities) =
               Observable(IF mode = "all"
                          THEN SequentialPass2(SequentialPass1(dump, ActiveLanguages),
                                               sample_entity_cache).entities
                          ELSE SequentialPass1(dump, ActiveLanguages).entities)

\* A run of both passes with two workers that exits 0, where one batch of
\* pass 1 held two records of the same qid and pass 2 ran several batches.
C14_Witness ==
    /\ pc = "exit" /\ exit_code = Some(0) /\ mode = "all"
    /\ workers = 2 /\ batch_size = 2 /\ context_batch_size = 1
    /\ dump[1].id = dump[2].id /\ dump[1].labels # dump[2].labels
    /\ Len(futures) > 1
    /\ \E r \in entities : r.context_string # <<>>

\* C15: pass-2 backpressure: the number of batches submitted and not yet
\* drained is at most twice the number of workers; the producer submits a
\* batch only while it is below that, and once a submission has brought it
\* there the producer goes on only after a batch of them has completed and
\* has been drained.
C15_Backpressure ==
    /\ [](pc = "pass2" => Cardinality(in_flight) <= 2 * workers)
    /\ [][/\ submitted' > submitted => Cardinality(in_flight) < 2 * workers
          /\ pass2_pc = "waiting" /\ pass2_pc' # "waiting"
                => \E i \in in_flight : /\ futures[i].state \in Finished
                                        /\ i \notin in_flight']_vars

\* The producer is blocked with twice the number of workers in flight while
\* iter_entity_ids has another batch to yield.
C15_Witness ==
    /\ pc = "pass2" /\ pass2_pc = "waiting"
    /\ Cardinality(in_flight) = 2 * workers
    /\ submitted < Len(pass2_batches)
    /\ \A i \in in_flight : futures[i].state \notin Finished

\* C16: when both phases are executed, pass 2 starts only after pass 1 has
\* completed successfully; if pass 1 fails, pass 2 is never started in that
\* run.
C16_Pass2OnlyAfterSuccessfulPass1 ==
    /\ mode = "all" /\ pc \in {"run_pass2", "pass2"} => pass1_done /\ ~pass1_failed
    /\ "run_pass1 raised" \in Range(trace) => "run_pass2" \notin Range(trace)
    /\ \A i \in DOMAIN trace :
          trace[i] = "run_pass2" /\ "run_pass1" \in Range(trace)
              => \E j \in 1..(i - 1) : trace[j] = "run_pass1 returned"

\* A run of both phases in which pass 1 failed after it had written a batch,
\* and which has ended without pass 2.
C16_Witness ==
    /\ mode = "all" /\ pc = "exit" /\ exit_code = Some(1)
    /\ pass1_failed /\ entities # {}
    /\ trace = <<"run_pass1", "run_pass1 raised">>

\* C17: every run of the driver that exits 0 has called ensure_search_indexes
\* after the last ingestion phase it executed and before it exited.
C17_ExitZeroEnsuredSearchIndexes ==
    exit_code = Some(0)
        => /\ trace # <<>>
           /\ trace[Len(trace)] = "ensure_search_indexes"

\* C19: pass 1 upserts with build_search_vector = true only in a run where
\* pass 2 is skipped; in a run that also executes pass 2, pass 1 leaves the
\* search vector empty.
C19_SearchVectorInPass1OnlyWithoutPass2 ==
    pc = "pass1" /\ pass1_build_search_vector => mode = "pass1"

\* The rows of a batch that was written are in the tables: for each qid of an
\* upsert the values of its last record, in both tables; for each qid of a
\* context update its context string.
Visible(write, store) ==
    IF write.call = "upsert_entities"
    THEN \A i \in DOMAIN write.rows :
            (\A j \in DOMAIN write.rows : j > i => write.rows[j].qid # write.rows[i].qid)
                => /\ entity_row(write.rows[i], write.build_search_vector) \in store.entities
                   /\ context_row(write.rows[i]) \in store.context_inputs
    ELSE \A i \in DOMAIN write.rows :
            \E r \in store.entities : /\ r.qid = write.rows[i].qid
                                      /\ r.context_string = write.rows[i].context_string

\* C20: store writes are atomic per batch: a call of upsert_entities or
\* update_context_strings that fails leaves the entities table and the
\* context-inputs table as they were, and one that succeeds leaves every row
\* of its batch in the tables.
C20_WritesAtomicPerBatch ==
    [][/\ (entities' # entities \/ context_inputs' # context_inputs)
            => /\ last_write' # NoWrite
               /\ ~last_write'[1].raised
       /\ (last_write' # last_write /\ ~last_write'[1].raised)
            => Visible(last_write'[1], [entities |-> entities',
                                        context_inputs |-> context_inputs'])]_vars

\* A context update of two rows has failed in a run of pass 2 and the rows
\* still have the empty context strings pass 1 gave them.
C20_Witness ==
    /\ last_write # NoWrite
    /\ last_write[1].call = "update_context_strings"
    /\ last_write[1].raised
    /\ Len(last_write[1].rows) = 2
    /\ \A i \in DOMAIN last_write[1].rows : last_write[1].rows[i].context_string # <<>>
    /\ \A r \in entities : r.context_string = <<>>
    /\ Cardinality(entities) = Cardinality(context_inputs)
    /\ entities # {}

\* The run has ended: main has returned or an exception has left it.
PipelineEnded == pipeline_exit # None \/ pipeline_uncaught # None

\* C18: the exit code of the pipeline driver is 0 if and only if every phase
\* it executed succeeded; a failure of an executed phase ends the run with
\* exit code 1, returned by main and not raised as an exception, and no
\* phase after the failed one is executed.
C18_ExitCodeReflectsPhases ==
    /\ pipeline_uncaught = None
    /\ PipelineEnded
          => /\ pipeline_exit = Some(0)
                   <=> /\ languages_arg # ""
                       /\ \A i \in DOMAIN phases_run : phases_run[i].outcome = "returned"
             /\ pipeline_exit \in {Some(0), Some(1)}
    /\ \A i \in DOMAIN phases_run :
          phases_run[i].outcome # "returned" => i = Len(phases_run)

\* C21: when a batch of pass 2 fails, nothing is retried: once the failure
\* has been observed no further batch is submitted, run_pass2 does not
\* return normally, and the driver exits with a nonzero code.
C21_FailedBatchIsFatal ==
    /\ [](/\ pass2_pc = "returned" => \A i \in DOMAIN futures : futures[i].state # "raised"
          /\ (pc = "exit" /\ \E i \in DOMAIN futures : futures[i].state = "raised")
                => exit_code = Some(1) /\ pass2_pc = "raised")
    /\ [][/\ pass2_pc \in {"failing", "raised"} /\ pc = "pass2"
                => submitted' = submitted /\ Len(futures') = Len(futures)
          /\ \A i \in DOMAIN futures :
                futures[i].state = "raised" /\ i \in DOMAIN futures'
                    => futures'[i].state = "raised"]_vars

\* A run of pass 2 that exited 1 after a failed batch, with batches of the
\* scan that were never submitted.
C21_Witness ==
    /\ pc = "exit" /\ exit_code = Some(1) /\ pass2_pc = "raised"
    /\ \E i \in DOMAIN futures : futures[i].state = "raised"
    /\ submitted < Len(pass2_batches)
    /\ trace[Len(trace)] = "run_pass2 raised"

\* MAX_CONTEXT_CHARS, scaled to the one-character labels of the model: the
\* number of characters a context string may have.
MaxContextChars == 2

\* C22: every context_string that pass 2 writes to the store has at most
\* MAX_CONTEXT_CHARS characters, whatever the number and the length of the
\* labels of the relation objects.
C22_ContextStringBounded ==
    \A r \in entities : Len(r.context_string) <= MaxContextChars

-----------------------------------------------------------------------------
(* Claims about the classification of an entity and the walk over its
   claims. *)

\* The statements of an entity in the order the dump gives them.
AllStatements(entity) ==
    IF entity.claims = None THEN <<>>
    ELSE Concat([i \in DOMAIN entity.claims[1] |-> entity.claims[1][i].statements])

\* The statement is a value snak whose value names the object id: by its id
\* when that id is a supported one, by its numeric-id otherwise.
Yields(statement, id) ==
    /\ statement.snaktype = "value"
    /\ statement.datavalue # None
    /\ statement.datavalue[1].mapping
    /\ is_supported_entity_id(id)
    /\ LET value == statement.datavalue[1]
           by_id == value.id # None /\ is_supported_entity_id(Strip(value.id[1]))
       IN  \/ by_id /\ Strip(value.id[1]) = id
           \/ /\ ~by_id
              /\ value.numeric_id # None
              /\ value.numeric_id[1] > 0
              /\ \/ value.entity_type = "item" /\ id = <<"Q">> \o FormatInt(value.numeric_id[1])
                 \/ value.entity_type = "property"
                        /\ id = <<"P">> \o FormatInt(value.numeric_id[1])

IsQItem(entity) ==
    /\ entity.id # None
    /\ entity.id[1] # <<>>
    /\ Head(entity.id[1]) = "Q"
    /\ entity.type = "item"

HasDisambiguationP31(entity) ==
    /\ entity.claims # None
    /\ \E i \in DOMAIN entity.claims[1] :
          /\ entity.claims[1][i].property = P31
          /\ \E k \in DOMAIN entity.claims[1][i].statements :
                \E id \in DISAMBIGUATION_INSTANCE_OF_QIDS :
                    Yields(entity.claims[1][i].statements[k], id)

HasClaims(entity) == entity.claims # None /\ entity.claims[1] # <<>>

\* C23: a Q-item with a P31 value statement whose object is Q4167410 or
\* Q22808320 is classified DISAMBIGUATION, however many other P31 statements
\* precede it and whatever else the item claims.
C23_DisambiguationFromAnyP31 ==
    (wd_category # None /\ IsQItem(wd_entity) /\ HasDisambiguationP31(wd_entity))
        => wd_category = Some("DISAMBIGUATION")

\* C24 as stated: a Q-item that is neither DISAMBIGUATION nor TYPE is ENTITY
\* exactly when it has at least one claim, and OTHER when it has none.
C24_EntityExactlyWithClaims ==
    (wd_category # None /\ IsQItem(wd_entity)
        /\ wd_category[1] \notin {"DISAMBIGUATION", "TYPE"})
        => /\ wd_category = Some("ENTITY") <=> HasClaims(wd_entity)
           /\ ~HasClaims(wd_entity) => wd_category = Some("OTHER")

\* C24 amended: a Q-item that is neither DISAMBIGUATION nor TYPE is ENTITY,
\* with or without claims; OTHER is the category only of an entity whose id is
\* missing, empty, or starts with neither P nor Q.
C24_EntityWithOrWithoutClaims ==
    wd_category # None
        => /\ (IsQItem(wd_entity) /\ wd_category[1] \notin {"DISAMBIGUATION", "TYPE"})
                => wd_category = Some("ENTITY")
           /\ wd_category = Some("OTHER")
                => \/ wd_entity.id = None
                   \/ wd_entity.id[1] = <<>>
                   \/ Head(wd_entity.id[1]) \notin {"P", "Q"}

C24_Witness ==
    /\ wd_category = Some("ENTITY")
    /\ IsQItem(wd_entity)
    /\ wd_entity.claims = Some(<<>>)

\* The position of the first statement that yields id, 0 when none does.
FirstYield(entity, id) ==
    LET statements == AllStatements(entity)
        at == {k \in DOMAIN statements : Yields(statements[k], id)}
    IN  IF at = {} THEN 0 ELSE CHOOSE k \in at : \A other \in at : k <= other

-----------------------------------------------------------------------------
(* Claims about the lexical typer. *)

StartsWithP(entity_id) == entity_id # <<>> /\ Head(entity_id) = "P"

\* C25: for an entity_id that starts with P the typer returns exactly
\* (["RELATION"], ["PROPERTY"], "lexical_v1"), whatever the labels, aliases
\* and descriptions, texts with the clues of other rules included.
C25_PropertyIsRelation ==
    (ner_types # None /\ StartsWithP(ner_entity_id))
        => ner_types[1] = [coarse_types |-> <<RELATION>>, fine_types |-> <<PROPERTY>>,
                           source |-> "lexical_v1"]

C25_Witness ==
    /\ ner_types # None
    /\ StartsWithP(ner_entity_id)
    /\ ner_types[1].fine_types = <<PROPERTY>>
    /\ typed_by_rules(ner_labels, ner_aliases, ner_descriptions).fine_types
            = <<<<"C", "O", "M", "P", "A", "N", "Y">>,
                <<"H", "U", "M", "A", "N">>>>

\* The scores of the rules of the table on the texts of the call.
RuleScores ==
    LET normalized_text ==
            JoinCasefolded(_iter_text_values(ner_labels, ner_aliases, ner_descriptions))
        token_set == Range(tokenize(normalized_text))
    IN  [i \in DOMAIN FINE_TYPE_RULES |->
            rule_score(FINE_TYPE_RULES[i], normalized_text, token_set)]

PassingRules(scores) ==
    {i \in DOMAIN FINE_TYPE_RULES : scores[i] >= FINE_TYPE_RULES[i].min_score}

\* Rule i comes before rule j in (score descending, fine name ascending).
RankedBefore(scores, i, j) ==
    \/ scores[i] > scores[j]
    \/ /\ scores[i] = scores[j]
       /\ StrLess(FINE_TYPE_RULES[i].fine, FINE_TYPE_RULES[j].fine)

FirstAmong(scores, rules) ==
    CHOOSE i \in rules : \A j \in rules \ {i} : RankedBefore(scores, i, j)

\* The top rule, and the second of the order when its score ties the top.
SelectedRules(scores) ==
    LET top == FirstAmong(scores, PassingRules(scores))
        rest == PassingRules(scores) \ {top}
    IN  IF rest # {} /\ scores[FirstAmong(scores, rest)] = scores[top]
        THEN <<top, FirstAmong(scores, rest)>>
        ELSE <<top>>

CoarseCount(selected, coarse) ==
    Cardinality({k \in DOMAIN selected : FINE_TYPE_RULES[selected[k]].coarse = coarse})

\* C26: for an entity whose id does not start with P and with at least one
\* passing rule, the fine types are those of the top rule in (score
\* descending, fine name ascending) and of the second rule only when it ties
\* the top, and the coarse types are the coarse labels of exactly those rules,
\* at most two, in (count descending, label ascending).
C26_TopRuleAndTiedSecond ==
    (ner_types # None /\ ~StartsWithP(ner_entity_id))
        => LET scores == RuleScores
               selected == SelectedRules(scores)
               fine_types == ner_types[1].fine_types
               coarse_types == ner_types[1].coarse_types
           IN  PassingRules(scores) # {}
                 => /\ fine_types = [k \in DOMAIN selected |-> FINE_TYPE_RULES[selected[k]].fine]
                    /\ Len(fine_types) \in {1, 2}
                    /\ Range(coarse_types)
                         = {FINE_TYPE_RULES[selected[k]].coarse : k \in DOMAIN selected}
                    /\ NoDuplicates(coarse_types)
                    /\ Len(coarse_types) <= 2
                    /\ \A a, b \in DOMAIN coarse_types :
                          a < b
                            => \/ CoarseCount(selected, coarse_types[a])
                                    > CoarseCount(selected, coarse_types[b])
                               \/ /\ CoarseCount(selected, coarse_types[a])
                                        = CoarseCount(selected, coarse_types[b])
                                  /\ StrLess(coarse_types[a], coarse_types[b])

C26_Witness ==
    /\ ner_types # None
    /\ ~StartsWithP(ner_entity_id)
    /\ Cardinality(PassingRules(RuleScores)) = 3
    /\ ner_types[1].fine_types = <<<<"C", "I", "T", "Y">>, <<"C", "O", "M", "P", "A", "N", "Y">>>>
    /\ ner_types[1].coarse_types
            = <<<<"L", "O", "C", "A", "T", "I", "O", "N">>,
                <<"O", "R", "G", "A", "N", "I", "Z", "A", "T", "I", "O", "N">>>>

-----------------------------------------------------------------------------
(* Claims about the Quickwit client. *)

FallbackStatus == {Some(400), Some(404), Some(405)}

\* C28: ensure_index first POSTs to the create endpoint; a success is
\* returned and a 409 gives {} without another request; only a 400, 404 or
\* 405 is followed by one PUT on the legacy endpoint, whose success is
\* returned, whose 409 gives {} and whose other errors are raised; any other
\* error of the first request is raised without a fallback request.
C28_EnsureIndexProtocol ==
    /\ Len(qw_requests) = Len(qw_responses)
    /\ Len(qw_requests) <= 2
    /\ qw_requests # <<>>
          => qw_requests[1].method = "POST" /\ qw_requests[1].path = "/api/v1/indexes"
    /\ qw_pc = "legacy"
          => Len(qw_requests) = 1 /\ qw_responses[1].status_code \in FallbackStatus
    /\ qw_pc = "done"
          => LET first == qw_responses[1]
             IN  /\ ~first.raised
                      => Len(qw_requests) = 1 /\ qw_result = Some(Returned(first.value))
                 /\ (first.raised /\ first.status_code = Some(409))
                      => Len(qw_requests) = 1 /\ qw_result = Some(Returned("{}"))
                 /\ (first.raised /\ first.status_code \notin FallbackStatus \cup {Some(409)})
                      => Len(qw_requests) = 1 /\ qw_result = Some(first)
                 /\ (first.raised /\ first.status_code \in FallbackStatus)
                      => /\ Len(qw_requests) = 2
                         /\ qw_requests[2].method = "PUT"
                         /\ qw_requests[2].path = "/api/v1/indexes/{index_id}?create=true"
                         /\ LET second == qw_responses[2]
                            IN  /\ ~second.raised => qw_result = Some(Returned(second.value))
                                /\ (second.raised /\ second.status_code = Some(409))
                                      => qw_result = Some(Returned("{}"))
                                /\ (second.raised /\ second.status_code # Some(409))
                                      => qw_result = Some(second)

C28_Witness ==
    /\ qw_pc = "done"
    /\ Len(qw_requests) = 2
    /\ qw_responses[1].status_code = Some(404)
    /\ qw_responses[2].status_code = Some(502)
    /\ qw_result = Some(QuickwitClientError(Some(502)))
    /\ qw_requests[2].index_id = <<"a", "%", "2", "F", "b">>

\* C29: when run_pass2 returns normally, every qid of the entities table is
\* in exactly one submitted batch, no batch is in flight, and updated_total is
\* the sum of the results of the batches, each counted once.
C29_Pass2Complete ==
    (pc = "pass2" /\ pass2_pc = "returned")
        => /\ in_flight = {}
           /\ submitted = Len(futures)
           /\ \A i \in DOMAIN futures : futures[i].state = "done"
           /\ \A r \in entities :
                 Cardinality({<<i, k>> \in (DOMAIN futures) \X (1..MaxBatch) :
                                 k \in DOMAIN futures[i].qids /\ futures[i].qids[k] = r.qid}) = 1
           /\ updated_total = SumResults(futures, DOMAIN futures)

C29_Witness ==
    /\ pc = "pass2"
    /\ pass2_pc = "returned"
    /\ Len(futures) = 2
    /\ Cardinality(entities) = 3
    /\ updated_total = 3

-----------------------------------------------------------------------------
(* Claims about the label resolver. *)

\* The labels of the ids in the order of the ids, each label once: what a
\* resolver without a cache returns.
RECURSIVE LabelsInOrder(_, _)
LabelsInOrder(object_ids, labels) ==
    IF object_ids = <<>> THEN labels
    ELSE LET object_id == Head(object_ids)
         IN  IF object_id \in DOMAIN LabelsDb /\ LabelsDb[object_id] \notin Range(labels)
             THEN LabelsInOrder(Tail(object_ids), Append(labels, LabelsDb[object_id]))
             ELSE LabelsInOrder(Tail(object_ids), labels)

\* C30: resolve returns the same sequence of labels, the same elements in
\* the same order, whatever the cache holds and whatever its size, after any
\* earlier calls of resolve.
C30_CacheTransparent ==
    lr_labels # None => lr_labels[1] = LabelsInOrder(lr_object_ids, <<>>)

====
